---- MODULE Spec2Model ----
\* A model of the recursive crawl controller of scraper.py (process_url, safe_get,
\* main) and of the helpers it calls.
\*
\* Text is modelled as a sequence of tokens: a token is either one punctuation
\* character (":", "/", ".", "?", "#", "_", "-", ...) or a word of letters and
\* digits.  A URL is such a sequence, so that prefix, suffix, substring, regular
\* expression and sanitising operations of the source are computed, not assumed.
EXTENDS Integers, Sequences, FiniteSets, TLC

\* ------------------------------------------------------------------ bounds
\* The longest seed list main is given.
MaxSeeds == 2

\* ------------------------------------------------------ program constants
REQUEST_RETRIES == 3
MAX_CRAWL_DEPTH == 2
MAX_LINKS_PER_PAGE == 20
FILENAME_MAX == 200
FOLLOW_LINKS == TRUE
FOLLOW_SAME_DOMAIN_ONLY == FALSE
DOWNLOAD_DIR == "downloads"
EXTRACT_DIR == "extracted"
JSON_OUT_DIR == "json_output"
BinaryExts == {"jpg", "png", "zip", "exe"}

\* ------------------------------------------------------- sequence helpers
\* Index of the first element of s that lies in T, Len(s)+1 when there is none.
FirstIdx(s, T) ==
    IF \E i \in 1..Len(s) : s[i] \in T
    THEN CHOOSE i \in 1..Len(s) : s[i] \in T /\ \A j \in 1..(i-1) : s[j] \notin T
    ELSE Len(s) + 1

\* s[n:] and s[:n] of Python, for 0-based cut n.
Drop(s, n) == SubSeq(s, n + 1, Len(s))
Take(s, n) == SubSeq(s, 1, IF n < Len(s) THEN n ELSE Len(s))

StartsWith(s, p) == Len(s) >= Len(p) /\ SubSeq(s, 1, Len(p)) = p
EndsWith(s, p) == Len(s) >= Len(p) /\ SubSeq(s, Len(s) - Len(p) + 1, Len(s)) = p
\* Python's `p in s` for strings.
Contains(s, p) == \E i \in 0..(Len(s) - Len(p)) : SubSeq(s, i + 1, i + Len(p)) = p

\* The set of elements of a sequence, and membership.
Range(s) == {s[i] : i \in 1..Len(s)}

\* str.lower() on one token and on a text.
LowerTok(t) ==
    CASE t = "PDF" -> "pdf"
      [] t = "JPG" -> "jpg"
      [] t = "JavaScript" -> "javascript"
      [] t = "DjVuTXT" -> "djvutxt"
      [] t = "Text" -> "text"
      [] t = "TXT" -> "txt"
      [] t = "Image" -> "image"
      [] t = "Container" -> "container"
      [] t = "JPEG" -> "jpeg"
      [] OTHER -> t
Lower(s) == [i \in 1..Len(s) |-> LowerTok(s[i])]

\* str.strip(): the blanks at both ends are dropped.
RECURSIVE LStrip(_)
LStrip(s) == IF s # <<>> /\ Head(s) = " " THEN LStrip(Tail(s)) ELSE s
RECURSIVE RStrip(_)
RStrip(s) == IF s # <<>> /\ s[Len(s)] = " " THEN RStrip(SubSeq(s, 1, Len(s) - 1)) ELSE s
Strip(s) == RStrip(LStrip(s))

\* ------------------------------------------------------------ URL parsing
\* s cut at the first token that lies in T: the part before it, and the rest
\* from that token on.
Cut(s, T) == <<Take(s, FirstIdx(s, T) - 1), Drop(s, FirstIdx(s, T) - 1)>>

\* Index of the last element of s that lies in T, 0 when there is none.
LastIdx(s, T) ==
    IF \E i \in 1..Len(s) : s[i] \in T
    THEN CHOOSE i \in 1..Len(s) : s[i] \in T /\ \A j \in (i+1)..Len(s) : s[j] \notin T
    ELSE 0

\* urllib.parse.urlparse: scheme://netloc path ?query #fragment, computed left
\* to right: the scheme, the netloc, the fragment, then path and query.
ParsedUrl(scheme, netloc, pq, fragment) ==
    [scheme |-> scheme, netloc |-> netloc, path |-> pq[1], query |-> Drop(pq[2], 1),
     fragment |-> fragment]
ParseQuery(scheme, netloc, pf) ==
    ParsedUrl(scheme, netloc, Cut(pf[1], {"?"}), Drop(pf[2], 1))
ParseFragment(scheme, na) == ParseQuery(scheme, na[1], Cut(na[2], {"#"}))
ParseNetloc(scheme, rest) ==
    ParseFragment(scheme, IF scheme # <<>> THEN Cut(rest, {"/", "?", "#"})
                          ELSE <<<<>>, rest>>)
HasScheme(url, c) == c > 1 /\ c + 2 <= Len(url) /\ url[c + 1] = "/" /\ url[c + 2] = "/"
ParseScheme(url, c) ==
    IF HasScheme(url, c) THEN ParseNetloc(Take(url, c - 1), Drop(url, c + 2))
    ELSE ParseNetloc(<<>>, url)
urlparse(url) == ParseScheme(url, FirstIdx(url, {":"}))

\* urllib.parse.urljoin for the href shapes the pages of the model hold: an
\* absolute URL, a root-relative path, an empty href, a path relative to the base.
Origin(b) == b.scheme \o <<":", "/", "/">> \o b.netloc
JoinParsed(base, href, b, h) ==
    IF href = <<>> THEN base
    ELSE IF h.scheme # <<>> THEN href
    ELSE IF href[1] = "/" THEN Origin(b) \o href
    ELSE IF LastIdx(b.path, {"/"}) = 0 THEN Origin(b) \o <<"/">> \o href
    ELSE Origin(b) \o Take(b.path, LastIdx(b.path, {"/"})) \o href
urljoin(base, href) == JoinParsed(base, href, urlparse(base), urlparse(href))

\* re.sub(r"[^0-9A-Za-z._-]", "_", name)
KeptPunct == {".", "_", "-"}
Punct == {":", "/", "?", "#", "=", "&", "%", "+", "~", " "} \cup KeptPunct
Sanitise(name) ==
    [i \in 1..Len(name) |->
        IF name[i] \in Punct /\ name[i] \notin KeptPunct THEN "_" ELSE name[i]]

\* if len(name) > 200: name = name[:200]
Truncate(name) == IF Len(name) > FILENAME_MAX THEN Take(name, FILENAME_MAX) ELSE name

FilenameOfParsed(parsed) ==
    Truncate(Sanitise(parsed.netloc \o parsed.path
                      \o (IF parsed.query # <<>> THEN <<"_">> \o parsed.query ELSE <<>>)))

make_filename_from_url(url) == FilenameOfParsed(urlparse(url))

\* Splits a text on "/" (str.split("/")).
RECURSIVE SplitSlash(_)
SplitSlash(s) ==
    IF FirstIdx(s, {"/"}) > Len(s) THEN <<s>>
    ELSE <<Take(s, FirstIdx(s, {"/"}) - 1)>> \o SplitSlash(Drop(s, FirstIdx(s, {"/"})))

RECURSIVE JoinSlash(_)
JoinSlash(parts) ==
    IF parts = <<>> THEN <<>>
    ELSE IF Len(parts) = 1 THEN parts[1]
    ELSE parts[1] \o <<"/">> \o JoinSlash(Tail(parts))

\* re.match(r"https?://github.com/([^/]+)/([^/]+)/blob/([^/]+)/(.*)$", url):
\* the "." of the pattern matches any one character (url[6]); parts are the
\* "/"-separated pieces after "github.com/".
GithubBlobMatch(url, parts) ==
    /\ Len(url) >= 8
    /\ url[1] \in {"http", "https"}
    /\ SubSeq(url, 2, 5) = <<":", "/", "/", "github">>
    /\ SubSeq(url, 7, 8) = <<"com", "/">>
    /\ Len(parts) >= 5
    /\ parts[1] # <<>>
    /\ parts[2] # <<>>
    /\ parts[3] = <<"blob">>
    /\ parts[4] # <<>>

RawUrl(url, parts) ==
    IF GithubBlobMatch(url, parts)
    THEN <<"https", ":", "/", "/", "raw", ".", "githubusercontent", ".", "com", "/">>
           \o parts[1] \o <<"/">> \o parts[2] \o <<"/">> \o parts[4] \o <<"/">>
           \o JoinSlash(Drop(parts, 4))
    ELSE url

github_blob_to_raw(url) == RawUrl(url, SplitSlash(Drop(url, 8)))

\* Lines 250-252 of process_url: the rewrite is attempted only when both
\* substrings occur in the URL.
RewriteUrl(url) ==
    IF Contains(url, <<"github", ".", "com">>) /\ Contains(url, <<"/", "blob", "/">>)
    THEN github_blob_to_raw(url)
    ELSE url

\* any(link.lower().endswith(ext) for ext in ['.jpg', '.png', '.zip', '.exe'])
IsBlacklistedBinary(link) ==
    \E ext \in BinaryExts : EndsWith(Lower(link), <<".", ext>>)

\* discover_links: hrefs of the page in document order, "#..." and
\* "javascript:..." skipped, resolved against base_url, de-duplicated keeping
\* the first appearance.
SkippedHref(href) ==
    \/ StartsWith(href, <<"#">>)
    \/ StartsWith(Lower(href), <<"javascript", ":">>)

\* A scan that returns found as it is.
DedupNot(found, seen) == found

\* Lines 204-211: de-duplicate preserving order.
RECURSIVE Dedup(_, _)
Dedup(found, seen) ==
    IF found = <<>> THEN <<>>
    ELSE IF Head(found) \in seen THEN Dedup(Tail(found), seen)
    ELSE <<Head(found)>> \o Dedup(Tail(found), seen \cup {Head(found)})

\* Lines 198-203: href = a["href"].strip(); a skipped href is passed over,
\* another one is resolved and appended to found.
RECURSIVE ResolveAll(_, _)
ResolveAll(hrefs, base_url) ==
    IF hrefs = <<>> THEN <<>>
    ELSE IF SkippedHref(Strip(Head(hrefs))) THEN ResolveAll(Tail(hrefs), base_url)
    ELSE <<urljoin(base_url, Strip(Head(hrefs)))>> \o ResolveAll(Tail(hrefs), base_url)

discover_links(hrefs, base_url) == Dedup(ResolveAll(hrefs, base_url), {})

\* ---------------------------------------------------------- the URL universe
Https == <<"https", ":", "/", "/">>
Example(p) == Https \o <<"example", ".", "com", "/", p>>
UrlA == Example("a")
UrlB == Example("b")
UrlC == Example("c")
UrlD == Example("d")
UrlBlob == Https \o <<"github", ".", "com", "/", "u", "/", "r", "/", "blob", "/", "m", "/", "f">>
UrlRaw == github_blob_to_raw(UrlBlob)
UrlImg == Https \o <<"example", ".", "com", "/", "i", ".", "jpg">>
UrlDoc == Https \o <<"example", ".", "com", "/", "e", ".", "pdf">>
UrlDocQ == UrlDoc \o <<"?", "dl", "=", "1">>

\* Optional values: None is the empty sequence, a present value v is <<v>>.
None == <<>>
Some(v) == <<v>>

CtHtml == <<"text", "/", "html">>
CtPdf == <<"application", "/", "pdf">>
CtBin == <<"application", "/", "octet", "-", "stream">>

\* The pages of the web of the model: for each URL, the anchor lists (href
\* attributes in document order) its server may return as an HTML page.
PageAB == <<UrlB, <<"#", "top">>, UrlC, UrlB>>
PageD == <<UrlD, UrlImg>>
PageGit == <<UrlBlob, UrlRaw, UrlA>>
\* A page of more links than MAX_LINKS_PER_PAGE: a page, pictures, and two
\* more pages after the first MAX_LINKS_PER_PAGE distinct links.
UrlE == Example("e")
Picture(i) == Https \o <<"example", ".", "com", "/", "i", ToString(i), ".", "png">>
PageMany ==
    <<UrlC>> \o [i \in 1..(MAX_LINKS_PER_PAGE - 1) |-> Picture(i)] \o <<UrlE, UrlA>>
PagesOf(req) ==
    CASE req = UrlA -> {PageAB, PageGit}
      [] req = UrlB -> {PageD, <<UrlC>>}
      [] req = UrlC -> {PageD, <<UrlD>>}
      [] req = UrlD -> {<<>>, PageMany}
      [] OTHER -> {<<>>}

\* html_tag: whether the first 500 characters of the body hold "<html".
Html(url, status_code, hrefs) ==
    [url |-> url, status_code |-> status_code, ct |-> CtHtml, hrefs |-> hrefs,
     html_tag |-> TRUE]
Pdf(url) ==
    [url |-> url, status_code |-> 200, ct |-> CtPdf, hrefs |-> <<>>, html_tag |-> FALSE]
\* A body that is neither a PDF nor an HTML document (a feed, a text file, a
\* download); hrefs are the <a href> fragments a parser finds in it.
Bin(url, hrefs) ==
    [url |-> url, status_code |-> 200, ct |-> CtBin, hrefs |-> hrefs, html_tag |-> FALSE]

\* The responses session.get may return for a requested URL: resp.url (the
\* final URL after redirects), resp.status_code, the content-type header and
\* the anchors of the body.
Responses(req) ==
    {Html(req, 200, h) : h \in PagesOf(req)}
    \cup (IF req \in {UrlC, UrlRaw} THEN {Pdf(req)} ELSE {})
    \cup (IF req = UrlB THEN {Html(req, 300, <<>>)} ELSE {})
    \cup (IF req = UrlC THEN {Bin(req, PageD)} ELSE {})
    \cup (IF req = UrlD
          THEN {Html(UrlB, 200, <<>>), Bin(UrlDoc, <<>>), Bin(UrlDocQ, <<>>)}
          ELSE {})

\* What one GET attempt can end in: a response, a transport-level exception, or
\* a response with an error status.
ErrorStatuses == {404, 503}

\* requests' Response.raise_for_status raises for 4xx and 5xx statuses only.
RaisesForStatus(status_code) == status_code >= 400 /\ status_code < 600

\* The seed lists main may be given: every non-empty list of at most MaxSeeds
\* seed URLs, repetitions included (as in URLS, lines 59-82).
SeedUrls == {UrlA, UrlB}
SeedLists == UNION {[1..n -> SeedUrls] : n \in 1..MaxSeeds}

\* The tasks whose local writes (open / write) may raise OSError: the disk of
\* the model fails only while the files of these source URLs are written.
FaultyTasks == {UrlB}

\* ------------------------------------------------- the web of scrape.py
\* The bounds of a paginated search crawl: the largest max_items a run is
\* given, the longest list of result pages an endpoint has, and the last page
\* number the model lets a crawl ask for (chosen above MaxQuota + 1, so that a
\* crawl that gains an item with every page before its last never reaches it).
MaxQuota == 3
MaxResultPages == 2
MaxPage == 4

BASE_OUTPUT_DIR == "legal_rag_data"
Brains == {"nda_brain", "msa_brain"}

Archive == Https \o <<"archive", ".", "org">>
UrlSearch == Archive \o <<"/", "search", "?", "query", "=", "nda">>
UrlPlain == Https \o <<"onenda", ".", "org", "/">>
HrefItem(id) == <<"/", "details", "/", id>>
UrlItem(id) == Archive \o HrefItem(id)
HrefAbout == <<"/", "about">>

\* The seed lists of BRAINS (config.py), flattened in dictionary order.
SeedSearch == [brain |-> "nda_brain", url |-> UrlSearch]
SeedPlain == [brain |-> "msa_brain", url |-> UrlPlain]
BrainSeedLists == {<<SeedPlain>>, <<SeedSearch>>, <<SeedSearch, SeedPlain>>}

\* The anchors (href attributes in document order) of one result page.
ResultPages ==
    {<<HrefItem("x"), HrefAbout, HrefItem("x")>>,
     <<HrefItem("y"), HrefItem("x")>>,
     <<HrefItem("y"), HrefItem("z")>>}

\* A search endpoint: its result pages, and what it answers beyond the last of
\* them: a page with no item link, or (endless) its last result page again.
Endpoints ==
    {[pages |-> p, endless |-> e] :
        p \in UNION {[1..n -> ResultPages] : n \in 0..MaxResultPages}, e \in BOOLEAN}
PageAt(ep, n) ==
    IF n <= Len(ep.pages) THEN ep.pages[n]
    ELSE IF ep.endless /\ ep.pages # <<>> THEN ep.pages[Len(ep.pages)]
    ELSE <<HrefAbout>>

\* What the server of an item page, of a file and of a plain seed may answer
\* (fetch may also fail for each of them).
HrefFileAbs == <<"/", "download", "/", "x", "/", "x", ".", "PDF">>
HrefFileRel == <<"x", ".", "txt">>
ItemPage(id) ==
    IF id = "x" THEN <<HrefFileAbs, HrefAbout, HrefFileRel, HrefFileAbs>> ELSE <<>>
CtText == <<"text", "/", "plain">>
ItemResponses(item_url) ==
    IF item_url = UrlItem("z") THEN {Pdf(item_url)}
    ELSE IF item_url = UrlItem("y")
    THEN {[url |-> item_url, status_code |-> 200, ct |-> CtBin,
           hrefs |-> <<>>, html_tag |-> TRUE]}
    ELSE {Html(item_url, 200, ItemPage("x"))}
FileResponse(file_url) ==
    [url |-> file_url, status_code |-> 200,
     ct |-> IF EndsWith(Lower(file_url), <<".", "pdf">>) THEN CtPdf ELSE CtText,
     hrefs |-> <<HrefItem("z")>>, html_tag |-> FALSE]
PlainResponses == {Html(UrlPlain, 200, <<>>), Bin(UrlPlain, <<HrefAbout>>)}

\* The local files whose write may raise OSError.
FaultyFiles == {Archive \o HrefFileAbs, UrlItem("z"), UrlPlain}

\* ------------------------------------------------------------------ state
VARIABLES
    seeds,          \* main's urls argument
    maxDepth,       \* the MAX_CRAWL_DEPTH tunable of the run
    tunables,       \* the FOLLOW_LINKS and FOLLOW_SAME_DOMAIN_ONLY tunables of the run
    mainPc,         \* "loop" while main iterates over the seeds, then "done"
    seedIdx,        \* 1-based index of the seed main is at
    all_results,    \* main's all_results
    visited,        \* the visited set main creates and passes down
    stack,          \* the active process_url calls, the running one last
    combined,       \* the contents of combined.jsonl, as a sequence of tokens
    jsonWrites,     \* every per-source JSON document written: path and Record
    payloadWrites,  \* every payload / text file written under downloads, extracted
    taskLog,        \* every claimed task: source URL, root URL, depth, parent
    getLog,         \* every safe_get call: requested URL and the task's source URL
    ended           \* every finished task: how it ended and the Record returned

\* The state of a run of scrape.py (scrape_all_brains).
VARIABLES
    brains,         \* the (brain, url) seeds of BRAINS, in order
    endpoint,       \* the search endpoint the run meets
    quota,          \* the max_items given to scrape_archive_search
    scrapePc,       \* "off", "loop" (scrape_all_brains), "page", "items", "done"
    brainIdx,       \* 1-based index of the seed scrape_all_brains is at
    search,         \* the locals of the running scrape_archive_search
    jsonl,          \* the contents of legal_rag_data/<brain>.jsonl, per brain
    rawFiles,       \* every file written under <brain>/raw_files
    netLog,         \* every fetch and every time.sleep, in order
    pageLog,        \* every search page asked for, with what the crawl knew then
    itemLog         \* every call of scrape_archive_item

\* The HTML branch of process_url applied to one parsed document.
VARIABLES
    html,           \* the response whose body is parsed: its URLs and its document
    extracted       \* None, or what lines 292-340 have set in the Record

\* One call of scrape_archive_search_to_items of archive.py.
VARIABLES
    library,        \* what archive.org holds for the query: the docs and numFound
    archive         \* the locals of the call, the files on disk, and its position

crawlVars == <<seeds, maxDepth, tunables, mainPc, seedIdx, all_results, visited, stack, combined,
               jsonWrites, payloadWrites, taskLog, getLog, ended>>
scrapeVars == <<brains, endpoint, quota, scrapePc, brainIdx, search, jsonl, rawFiles,
                netLog, pageLog, itemLog>>
vars == <<seeds, maxDepth, tunables, mainPc, seedIdx, all_results, visited, stack, combined,
          jsonWrites, payloadWrites, taskLog, getLog, ended,
          brains, endpoint, quota, scrapePc, brainIdx, search, jsonl, rawFiles,
          netLog, pageLog, itemLog, html, extracted, library, archive>>
htmlVars == <<html, extracted>>
archiveVars == <<library, archive>>

Top == stack[Len(stack)]
Rest == SubSeq(stack, 1, Len(stack) - 1)

NewResult(url, root_url) ==
    [source_url |-> url,
     root_url |-> IF root_url = None THEN url ELSE root_url[1],
     fetched_url |-> None,
     local_path |-> None,
     downloaded |-> FALSE,
     content_type |-> None,
     status_code |-> None,
     full_text_path |-> None,
     article_text_path |-> None,
     article_text |-> None,
     full_text |-> None,
     error |-> None,
     discovered_links |-> <<>>,
     children_count |-> None]

\* A process_url that forgets visited.add(url).
ClaimForgotten(v, url) == v

\* visited.add(url)
Claim(v, url) == v \cup {url}

\* The frame of a process_url call that has claimed its URL and is about to
\* call safe_get (lines 229-254).
NewFrame(url, root_url, depth) ==
    [url |-> url,
     req |-> RewriteUrl(url),
     depth |-> depth,
     pc |-> "get",
     i |-> 0,
     att |-> <<>>,
     slept |-> <<>>,
     resp |-> None,
     route |-> "none",
     extraction |-> "none",
     result |-> NewResult(url, root_url),
     links |-> <<>>,
     k |-> 1,
     children |-> 0]

\* The locals of scrape_archive_search before it is called.
NoSearch ==
    [brain |-> "", base_root |-> <<>>, base_query |-> <<>>, max_items |-> 0, page |-> 0,
     scraped_items |-> 0, seen_items |-> {}, pending |-> <<>>]

\* The tunables as they are shipped (lines 53 and 56), and the settings a run of
\* scraper.py may be given.
Shipped ==
    [FOLLOW_LINKS |-> FOLLOW_LINKS, FOLLOW_SAME_DOMAIN_ONLY |-> FOLLOW_SAME_DOMAIN_ONLY]
Tunables ==
    {Shipped,
     [FOLLOW_LINKS |-> TRUE, FOLLOW_SAME_DOMAIN_ONLY |-> TRUE],
     [FOLLOW_LINKS |-> FALSE, FOLLOW_SAME_DOMAIN_ONLY |-> FALSE]}

\* A run is a run of scraper.py (main) or a run of scrape.py
\* (scrape_all_brains); the other program does not run.
ScraperRuns ==
    /\ seeds \in SeedLists
    /\ maxDepth \in 1..MAX_CRAWL_DEPTH
    /\ tunables \in Tunables
    /\ mainPc = "loop"
    /\ brains = <<>>
    /\ endpoint = [pages |-> <<>>, endless |-> FALSE]
    /\ quota = 0
    /\ scrapePc = "off"
ScrapeRuns ==
    /\ seeds = <<>>
    /\ maxDepth = MAX_CRAWL_DEPTH
    /\ tunables = Shipped
    /\ mainPc = "off"
    /\ brains \in BrainSeedLists
    /\ endpoint \in Endpoints
    /\ quota \in 1..MaxQuota
    /\ scrapePc = "loop"

\* Nothing has been fetched, written or logged yet.
NothingDone ==
    /\ brainIdx = 1
    /\ search = NoSearch
    /\ jsonl = [b \in Brains |-> <<>>]
    /\ rawFiles = <<>>
    /\ netLog = <<>>
    /\ pageLog = <<>>
    /\ itemLog = <<>>
    /\ seedIdx = 1
    /\ all_results = <<>>
    /\ visited = {}
    /\ stack = <<>>
    /\ combined = <<>>
    /\ jsonWrites = <<>>
    /\ payloadWrites = <<>>
    /\ taskLog = <<>>
    /\ getLog = <<>>
    /\ ended = <<>>

\* A parsed document as BeautifulSoup shows it to the code.  meta[key] is the
\* content attribute of the first meta tag of that key (None: no such tag, an
\* empty text: no content); time is the first <time> element (None: there is
\* none) with its datetime attribute and its text; elems are the elements in
\* document order, each with its get_text(); text is the text of the whole
\* page; hrefs are the href attributes of the anchors in document order.
MetaKeys == {"article:published_time", "date", "publication_date", "pubdate"}
NoDocument ==
    [url |-> <<>>, req |-> <<>>, meta |-> [key \in MetaKeys |-> None], time |-> None,
     elems |-> <<>>, text |-> <<>>, hrefs |-> <<>>]

\* The locals of scrape_archive_search_to_items and of the search_archive_docs
\* it calls, the files under ARCHIVE_RAW_DIR, and the calls made per document.
ArchiveCall(pc, search_url, max_items, rows, disk) ==
    [pc |-> pc, search_url |-> search_url, max_items |-> max_items, rows |-> rows,
     query |-> None, page |-> 1, all_docs |-> <<>>, idx |-> 1, items |-> <<>>,
     disk |-> disk, calls |-> <<>>]

\* No call of scrape_archive_search_to_items is under way.
NoLibrary == [docs |-> <<>>, num_found |-> 0]
NoArchive == ArchiveCall("off", <<>>, 0, 0, {})

Init ==
    /\ ScraperRuns \/ ScrapeRuns
    /\ html = NoDocument
    /\ extracted = None
    /\ library = NoLibrary
    /\ archive = NoArchive
    /\ NothingDone

\* ------------------------------------------------------------------ files
Path(dir, name) == [dir |-> dir, name |-> name]
\* os.path.basename
Basename(path) == path.name

\* One serialised Record (json.dumps) and the newline character, as the tokens
\* of a log file.
JsonTok(rec) == [kind |-> "json", rec |-> rec]
NL == [kind |-> "nl"]

\* scraper.py line 371 writes json.dumps(result) + '' to combined.jsonl.
CombinedLine(rec) == <<JsonTok(rec)>> \o <<>>

\* scrape.py append_jsonl_record writes json.dumps(record) + "\n".
append_jsonl_record(log, record) == log \o <<JsonTok(record)>> \o <<NL>>

\* ---------------------------------------------------------------- safe_get
\* time.sleep(1 + i * 2) after failed attempt i (0-based).
Backoff(i) == 1 + i * 2

\* A safe_get whose loop runs once too often.
MoreAttemptsOffByOne(i) == i <= REQUEST_RETRIES

\* for i in range(REQUEST_RETRIES)
MoreAttempts(i) == i < REQUEST_RETRIES

\* ------------------------------------------------------------ classification
\* A classifier that looks at the URL only and ignores the content-type header.
is_pdf_response_UrlOnly(resp, url) ==
    resp # None /\ EndsWith(Lower(url), <<".", "pdf">>)

is_pdf_response(resp, url) ==
    IF resp = None THEN FALSE
    ELSE IF Contains(Lower(resp[1].ct), <<"pdf">>) THEN TRUE
    ELSE IF EndsWith(Lower(url), <<".", "pdf">>) THEN TRUE
    ELSE FALSE

WithSuffix(fname, ext) ==
    IF EndsWith(Lower(fname), <<".", ext>>) THEN fname ELSE fname \o <<".", ext>>

\* ------------------------------------------------- the try block, lines 264-340
NoFollow(result, writes) ==
    [result |-> result, writes |-> writes, links |-> <<>>, follow |-> FALSE]
Raised(result) == [result EXCEPT !.error = Some("OSError")]
Written(kind, path, f) == [kind |-> kind, path |-> path, src |-> f.url]
Downloaded(result, local_path) ==
    [result EXCEPT !.local_path = Some(local_path), !.downloaded = TRUE]
FullText(result, txt_path, text) ==
    [result EXCEPT !.full_text_path = Some(txt_path), !.full_text = Some(text)]
ArticleText(result, art_path, text) ==
    [result EXCEPT !.article_text_path = Some(art_path), !.article_text = Some(text)]
TxtPath(local_path, suffix) == Path(EXTRACT_DIR, Basename(local_path) \o suffix)

\* The PDF branch (lines 265-279) with the step that raised (fault): "none",
\* "raw" (saving the stream) or "txt" (writing the extracted text); text is what
\* extract_text_from_pdf returned.
PdfOut(f, fault, text, local_path) ==
    CASE fault = "raw" -> NoFollow(Raised(f.result), <<>>)
      [] fault = "txt" ->
            NoFollow(Raised(Downloaded(f.result, local_path)),
                     <<Written("raw", local_path, f)>>)
      [] OTHER ->
            NoFollow(FullText(Downloaded(f.result, local_path),
                              TxtPath(local_path, <<".", "txt">>), text),
                     <<Written("raw", local_path, f),
                       Written("txt", TxtPath(local_path, <<".", "txt">>), f)>>)

\* extract_text_from_pdf (lines 139-145): the text, or "" when pdfminer raised.
extract_text_from_pdf(pdfOk) == IF pdfOk THEN "pdf text" ELSE ""

PdfBranch(f, fault, pdfOk) ==
    PdfOut(f, fault, extract_text_from_pdf(pdfOk),
           Path(DOWNLOAD_DIR, WithSuffix(make_filename_from_url(f.resp[1].url), "pdf")))

\* A depth test that is off by one, and one that is missing.
ShouldFollowOffByOne(depth, limit) == tunables.FOLLOW_LINKS /\ depth <= limit
ShouldFollowAlways(depth, limit) == tunables.FOLLOW_LINKS

\* if FOLLOW_LINKS and depth < MAX_CRAWL_DEPTH
ShouldFollow(depth, limit) == tunables.FOLLOW_LINKS /\ depth < limit

\* A filter that lets every domain through.
within_domain_Any(root, candidate) == TRUE

\* within_domain (lines 214-219)
within_domain(root, candidate) ==
    IF ~tunables.FOLLOW_SAME_DOMAIN_ONLY THEN TRUE
    ELSE urlparse(root).netloc = urlparse(candidate).netloc

\* A page whose links are not capped.
CapLinksNot(links) == links

\* links[:MAX_LINKS_PER_PAGE]
CapLinks(links) == Take(links, MAX_LINKS_PER_PAGE)

\* The HTML branch (lines 281-340: every response that is not a PDF) with the
\* step that raised: "none", "raw" (writing the page), "txt" or "article".
HtmlOut(f, fault, limit, local_path, links) ==
    CASE fault = "raw" -> NoFollow(Raised(f.result), <<>>)
      [] fault = "txt" ->
            NoFollow(Raised(Downloaded(f.result, local_path)),
                     <<Written("raw", local_path, f)>>)
      [] fault = "article" ->
            NoFollow(Raised(FullText(Downloaded(f.result, local_path),
                                     TxtPath(local_path, <<".", "txt">>), "html text")),
                     <<Written("raw", local_path, f),
                       Written("txt", TxtPath(local_path, <<".", "txt">>), f)>>)
      [] OTHER ->
            [result |->
                [ArticleText(FullText(Downloaded(f.result, local_path),
                                      TxtPath(local_path, <<".", "txt">>), "html text"),
                             TxtPath(local_path, <<".", "article", ".", "txt">>),
                             "article text")
                    EXCEPT !.discovered_links = CapLinks(links)],
             writes |-> <<Written("raw", local_path, f),
                          Written("txt", TxtPath(local_path, <<".", "txt">>), f),
                          Written("article",
                                  TxtPath(local_path, <<".", "article", ".", "txt">>), f)>>,
             links |-> CapLinks(links),
             follow |-> ShouldFollow(f.depth, limit)]

HtmlBranch(f, fault, limit) ==
    HtmlOut(f, fault, limit,
            Path(DOWNLOAD_DIR, WithSuffix(make_filename_from_url(f.resp[1].url), "html")),
            discover_links(f.resp[1].hrefs, f.resp[1].url))

\* ------------------------------------------------------- calls and returns
\* A process_url call returns to its caller, whose frames are rest: kind is
\* "result" (a Record is returned), "none" (None is returned: the URL was
\* already visited) or "raise" (an exception leaves process_url).  The caller is
\* the children loop of the parent (lines 345-355, inside the try block whose
\* except clause is lines 359-361) or the loop of main (lines 383-389).
Return(rest, kind, rec) ==
    IF rest = <<>>
    THEN /\ stack' = <<>>
         /\ seedIdx' = seedIdx + 1
         /\ all_results' = IF kind = "result" THEN Append(all_results, rec) ELSE all_results
    ELSE LET p == rest[Len(rest)]
             q == IF kind = "raise"
                  THEN [p EXCEPT !.result.error = Some("OSError"), !.pc = "persist"]
                  ELSE [p EXCEPT !.children = IF kind = "result" THEN @ + 1 ELSE @,
                                 !.k = @ + 1]
         IN /\ stack' = [rest EXCEPT ![Len(rest)] = q]
            /\ UNCHANGED <<seedIdx, all_results>>

\* process_url(url, root_url, depth, visited) is entered from a caller whose
\* frames are rest (lines 224-254).
Call(rest, url, root_url, depth, parent, v) ==
    IF url \in v
    THEN /\ Return(rest, "none", None)
         /\ visited' = v
         /\ UNCHANGED <<taskLog, getLog>>
    ELSE /\ visited' = Claim(v, url)
         /\ stack' = Append(rest, NewFrame(url, root_url, depth))
         /\ taskLog' = Append(taskLog, [src |-> url,
                                        root |-> NewResult(url, root_url).root_url,
                                        depth |-> depth, parent |-> parent])
         /\ getLog' = Append(getLog, [req |-> RewriteUrl(url), src |-> url,
                                      claimed |-> url \in Claim(v, url)])
         /\ UNCHANGED <<seedIdx, all_results>>

\* ------------------------------------------------------------------ main
\* A main that gives every root call a visited set of its own.
MainVisitedFresh(v) == {}

\* Line 382: main creates one visited set before its loop; every root call
\* is given that same set.
MainVisited(v) == v

\* for u in urls: process_url(u, root_url=u, depth=0, visited=visited)
MainCallSeed ==
    /\ mainPc = "loop"
    /\ stack = <<>>
    /\ seedIdx <= Len(seeds)
    /\ Call(<<>>, seeds[seedIdx], Some(seeds[seedIdx]), 0, None, MainVisited(visited))
    /\ UNCHANGED scrapeVars
    /\ UNCHANGED htmlVars
    /\ UNCHANGED archiveVars
    /\ UNCHANGED <<seeds, maxDepth, tunables, mainPc, combined, jsonWrites, payloadWrites,
                   ended>>

\* The loop is over: main saves the metadata CSV and returns.
MainDone ==
    /\ mainPc = "loop"
    /\ stack = <<>>
    /\ seedIdx > Len(seeds)
    /\ mainPc' = "done"
    /\ UNCHANGED scrapeVars
    /\ UNCHANGED htmlVars
    /\ UNCHANGED archiveVars
    /\ UNCHANGED <<seeds, maxDepth, tunables, seedIdx, all_results, visited, stack, combined,
                   jsonWrites, payloadWrites, taskLog, getLog, ended>>

\* -------------------------------------------------------------- safe_get
\* One attempt of safe_get succeeds: session.get returns a response and
\* raise_for_status does not raise; safe_get returns it.
SafeGetOk ==
    /\ stack # <<>>
    /\ Top.pc = "get"
    /\ MoreAttempts(Top.i)
    /\ \E r \in Responses(Top.req) :
          /\ ~RaisesForStatus(r.status_code)
          /\ stack' = [stack EXCEPT ![Len(stack)] =
                          [@ EXCEPT !.att = Append(@, "ok"),
                                    !.resp = Some(r),
                                    !.pc = "got"]]
    /\ UNCHANGED scrapeVars
    /\ UNCHANGED htmlVars
    /\ UNCHANGED archiveVars
    /\ UNCHANGED <<seeds, maxDepth, tunables, mainPc, seedIdx, all_results, visited, combined,
                   jsonWrites, payloadWrites, taskLog, getLog, ended>>

\* One attempt of safe_get fails: session.get raises (status 0 stands for no
\* response) or raise_for_status raises; the exception is caught, the backoff
\* is slept and the loop goes on.
SafeGetFail ==
    /\ stack # <<>>
    /\ Top.pc = "get"
    /\ MoreAttempts(Top.i)
    /\ \E st \in {0} \cup ErrorStatuses :
          /\ st # 0 => RaisesForStatus(st)
          /\ stack' = [stack EXCEPT ![Len(stack)] =
                          [@ EXCEPT !.att = Append(@, "fail"),
                                    !.slept = Append(@, Backoff(Top.i)),
                                    !.i = @ + 1]]
    /\ UNCHANGED scrapeVars
    /\ UNCHANGED htmlVars
    /\ UNCHANGED archiveVars
    /\ UNCHANGED <<seeds, maxDepth, tunables, mainPc, seedIdx, all_results, visited, combined,
                   jsonWrites, payloadWrites, taskLog, getLog, ended>>

\* The loop of safe_get is exhausted: it logs the error and returns None.
SafeGetGiveUp ==
    /\ stack # <<>>
    /\ Top.pc = "get"
    /\ ~MoreAttempts(Top.i)
    /\ stack' = [stack EXCEPT ![Len(stack)] = [@ EXCEPT !.resp = None, !.pc = "got"]]
    /\ UNCHANGED scrapeVars
    /\ UNCHANGED htmlVars
    /\ UNCHANGED archiveVars
    /\ UNCHANGED <<seeds, maxDepth, tunables, mainPc, seedIdx, all_results, visited, combined,
                   jsonWrites, payloadWrites, taskLog, getLog, ended>>

\* ------------------------------------------------------------ process_url
Ended(f, how, rec) ==
    Append(ended, [src |-> f.url, req |-> f.req, depth |-> f.depth, how |-> how,
                   rec |-> rec, resp |-> f.resp, route |-> f.route,
                   extraction |-> f.extraction])

\* A failure branch that returns the result without setting its error.
FetchFailedResultNoError(result) == result

\* Lines 255-257: safe_get returned None.
FetchFailedResult(result) == [result EXCEPT !.error = Some("failed_to_fetch")]

FetchFailed ==
    /\ stack # <<>>
    /\ Top.pc = "got"
    /\ Top.resp = None
    /\ LET rec == FetchFailedResult(Top.result)
       IN /\ ended' = Ended(Top, "returned", rec)
          /\ Return(Rest, "result", rec)
    /\ UNCHANGED scrapeVars
    /\ UNCHANGED htmlVars
    /\ UNCHANGED archiveVars
    /\ UNCHANGED <<seeds, maxDepth, tunables, mainPc, visited, combined, jsonWrites,
                   payloadWrites, taskLog, getLog>>

\* Lines 259-340: the response is classified, the payload and the extracted
\* text are written, the links are discovered.  An exception raised in the try
\* block is caught at lines 359-361.
Extract ==
    /\ stack # <<>>
    /\ Top.pc = "got"
    /\ Top.resp # None
    /\ LET r == Top.resp[1]
           f == [Top EXCEPT !.result.status_code = Some(r.status_code),
                            !.result.fetched_url = Some(r.url),
                            !.result.content_type = Some(Lower(r.ct))]
           pdf == is_pdf_response(f.resp, f.req)
           faults == IF f.url \in FaultyTasks
                     THEN IF pdf THEN {"none", "raw", "txt"}
                          ELSE {"none", "raw", "txt", "article"}
                     ELSE {"none"}
       IN \E fault \in faults, pdfOk \in (IF pdf THEN BOOLEAN ELSE {TRUE}) :
             LET out == IF pdf THEN PdfBranch(f, fault, pdfOk)
                        ELSE HtmlBranch(f, fault, maxDepth)
             IN /\ stack' = [stack EXCEPT ![Len(stack)] =
                                [f EXCEPT !.result = out.result,
                                          !.route = IF pdf THEN "pdf" ELSE "html",
                                          !.extraction =
                                              IF pdf /\ fault # "raw"
                                              THEN IF pdfOk THEN "ok" ELSE "failed"
                                              ELSE "none",
                                          !.links = out.links,
                                          !.i = 0,
                                          !.att = <<>>,
                                          !.slept = <<>>,
                                          !.k = 1,
                                          !.children = 0,
                                          !.pc = IF out.follow THEN "loop" ELSE "persist"]]
                /\ payloadWrites' = payloadWrites \o out.writes
    /\ UNCHANGED scrapeVars
    /\ UNCHANGED htmlVars
    /\ UNCHANGED archiveVars
    /\ UNCHANGED <<seeds, maxDepth, tunables, mainPc, seedIdx, all_results, visited, combined,
                   jsonWrites, taskLog, getLog, ended>>

\* Lines 345-350: a link the filters drop.
LoopSkip ==
    /\ stack # <<>>
    /\ Top.pc = "loop"
    /\ Top.k <= Len(Top.links)
    /\ LET link == Top.links[Top.k]
       IN \/ ~within_domain(Top.result.root_url, link)
          \/ IsBlacklistedBinary(link)
    /\ stack' = [stack EXCEPT ![Len(stack)] = [@ EXCEPT !.k = @ + 1]]
    /\ UNCHANGED scrapeVars
    /\ UNCHANGED htmlVars
    /\ UNCHANGED archiveVars
    /\ UNCHANGED <<seeds, maxDepth, tunables, mainPc, seedIdx, all_results, visited, combined,
                   jsonWrites, payloadWrites, taskLog, getLog, ended>>

\* Lines 352-355: process_url(link, root_url=result['root_url'], depth=depth+1,
\* visited=visited).
LoopCall ==
    /\ stack # <<>>
    /\ Top.pc = "loop"
    /\ Top.k <= Len(Top.links)
    /\ LET link == Top.links[Top.k]
       IN /\ within_domain(Top.result.root_url, link)
          /\ ~IsBlacklistedBinary(link)
          /\ Call(stack, link, Some(Top.result.root_url), Top.depth + 1, Some(Top.url),
                  visited)
    /\ UNCHANGED scrapeVars
    /\ UNCHANGED htmlVars
    /\ UNCHANGED archiveVars
    /\ UNCHANGED <<seeds, maxDepth, tunables, mainPc, combined, jsonWrites, payloadWrites,
                   ended>>

\* Line 357: result['children_count'] = len(children)
LoopEnd ==
    /\ stack # <<>>
    /\ Top.pc = "loop"
    /\ Top.k > Len(Top.links)
    /\ stack' = [stack EXCEPT ![Len(stack)] =
                    [@ EXCEPT !.result.children_count = Some(Top.children),
                              !.pc = "persist"]]
    /\ UNCHANGED scrapeVars
    /\ UNCHANGED htmlVars
    /\ UNCHANGED archiveVars
    /\ UNCHANGED <<seeds, maxDepth, tunables, mainPc, seedIdx, all_results, visited, combined,
                   jsonWrites, payloadWrites, taskLog, getLog, ended>>

\* Line 364-365: the path of the per-source JSON document.
JsonPath(f) ==
    Path(JSON_OUT_DIR,
         make_filename_from_url(IF f.result.fetched_url # None
                                THEN f.result.fetched_url[1] ELSE f.req)
             \o <<".", "json">>)

\* Lines 363-375: the Record is written to its JSON document and appended to
\* combined.jsonl, and returned.
PersistOk ==
    /\ stack # <<>>
    /\ Top.pc = "persist"
    /\ jsonWrites' = Append(jsonWrites, [path |-> JsonPath(Top), rec |-> Top.result])
    /\ combined' = combined \o CombinedLine(Top.result)
    /\ ended' = Ended(Top, "returned", Top.result)
    /\ Return(Rest, "result", Top.result)
    /\ UNCHANGED scrapeVars
    /\ UNCHANGED htmlVars
    /\ UNCHANGED archiveVars
    /\ UNCHANGED <<seeds, maxDepth, tunables, mainPc, visited, payloadWrites, taskLog, getLog>>

\* Lines 363-371 are outside the try block: an OSError raised by writing the
\* JSON document ("json") or by appending to combined.jsonl ("combined") leaves
\* process_url.
PersistRaise ==
    /\ stack # <<>>
    /\ Top.pc = "persist"
    /\ Top.url \in FaultyTasks
    /\ \E fault \in {"json", "combined"} :
          jsonWrites' = IF fault = "combined"
                        THEN Append(jsonWrites, [path |-> JsonPath(Top), rec |-> Top.result])
                        ELSE jsonWrites
    /\ ended' = Ended(Top, "raised", Top.result)
    /\ Return(Rest, "raise", Top.result)
    /\ UNCHANGED scrapeVars
    /\ UNCHANGED htmlVars
    /\ UNCHANGED archiveVars
    /\ UNCHANGED <<seeds, maxDepth, tunables, mainPc, visited, combined, payloadWrites,
                   taskLog, getLog>>

\* ================================================================ scrape.py
\* ---------------------------------------------------------------- helpers
\* get_domain
get_domain(url) == urlparse(url).netloc

\* str.replace(a, b) for one-token a and b.
ReplaceTok(t, a, b) == [i \in 1..Len(t) |-> IF t[i] = a THEN b ELSE t[i]]

\* safe_filename: the characters that are alphanumeric or one of - _ . + = are
\* kept, "file" when nothing is left.
SafeChars == {"-", "_", ".", "+", "="}
SafeOrFile(kept) == IF kept = <<>> THEN <<"file">> ELSE kept
safe_filename(t) == SafeOrFile(SelectSeq(t, LAMBDA c : c \notin Punct \/ c \in SafeChars))

\* mimetypes.guess_extension for the content types of the model.
GuessExtension(ct) ==
    IF ct = CtText THEN <<".", "txt">>
    ELSE IF ct = CtBin THEN <<".", "bin">>
    ELSE <<>>

\* get_extension_from_content_type, ct being the lower-cased header.
get_extension_from_content_type(ct) ==
    IF ct = <<>> THEN <<".", "bin">>
    ELSE IF Contains(Lower(Take(ct, FirstIdx(ct, {";"}) - 1)), <<"html">>) THEN <<".", "html">>
    ELSE IF Contains(Lower(Take(ct, FirstIdx(ct, {";"}) - 1)), <<"pdf">>) THEN <<".", "pdf">>
    ELSE IF Contains(Lower(Take(ct, FirstIdx(ct, {";"}) - 1)), <<"json">>) THEN <<".", "json">>
    ELSE IF GuessExtension(Lower(Take(ct, FirstIdx(ct, {";"}) - 1))) # <<>>
    THEN GuessExtension(Lower(Take(ct, FirstIdx(ct, {";"}) - 1)))
    ELSE <<".", "bin">>

\* get_binary_output_path
OrElse(t, default) == IF t = <<>> THEN default ELSE t
WithIndex(path_part) ==
    IF EndsWith(path_part, <<"/">>) THEN path_part \o <<"index">> ELSE path_part
BinaryPathOfParsed(brain, parsed, ext) ==
    Path(<<BASE_OUTPUT_DIR, brain, "raw_files">>,
         safe_filename(OrElse(ReplaceTok(parsed.netloc, ":", "_"), <<"unknown_domain">>)
                       \o <<"_">>
                       \o OrElse(ReplaceTok(WithIndex(OrElse(parsed.path, <<"index">>)),
                                            "/", "_"),
                                 <<"file">>)
                       \o ext))
get_binary_output_path(brain, url, ext) == BinaryPathOfParsed(brain, urlparse(url), ext)

\* is_archive_search
IsArchiveSearchParsed(parsed) ==
    parsed.netloc = <<"archive", ".", "org">> /\ parsed.path = <<"/", "search">>
is_archive_search(url) == IsArchiveSearchParsed(urlparse(url))

\* ct = (resp.headers.get("Content-Type") or "").lower(), and the HTML test
\* of scrape_archive_item and scrape_url_for_brain.
HeaderCt(r) == Lower(r.ct)
IsHtml(r) == Contains(HeaderCt(r), <<"text", "/", "html">>) \/ r.html_tag

\* ---------------------------------------------------------------- records
\* The records appended to <brain>.jsonl (fetched_at, a clock reading, is left
\* out); a key the code does not set is None.
Rec(brain, url, status) ==
    [brain |-> brain, url |-> url, domain |-> get_domain(url), status |-> status,
     error |-> None, type |-> None, content_type_header |-> None, text |-> None,
     file_path |-> None, parent_item |-> None, source |-> None]
ErrorRec(brain, url, error) == [Rec(brain, url, "error") EXCEPT !.error = Some(error)]
HtmlRec(brain, url, ct) ==
    [Rec(brain, url, "ok") EXCEPT !.type = Some("html"),
                                  !.content_type_header = Some(ct),
                                  !.text = Some("text")]
BinaryRec(brain, url, ct, out_path) ==
    [Rec(brain, url, "ok") EXCEPT !.type = Some("binary"),
                                  !.content_type_header = Some(ct),
                                  !.file_path = Some(out_path)]
SaveFailedRec(brain, url, error, ct) ==
    [ErrorRec(brain, url, error) EXCEPT !.content_type_header = Some(ct)]
\* A file record that does not name its item.
WithParentForgotten(rec, item_url) == rec

\* "parent_item": item_url (lines 153, 172, 186)
WithParent(rec, item_url) == [rec EXCEPT !.parent_item = Some(item_url)]
WithSource(rec, source) == [rec EXCEPT !.source = Some(source)]

\* What a call leaves behind: the records it appended, the files it wrote and
\* the fetches and sleeps it made, each in order.
Did(recs, files, net) == [recs |-> recs, files |-> files, net |-> net]
DidBoth(a, b) == Did(a.recs \o b.recs, a.files \o b.files, a.net \o b.net)
Fetch(url, kind) == [ev |-> "fetch", url |-> url, kind |-> kind]
Sleep(at) == [ev |-> "sleep", url |-> <<>>, kind |-> at]
FileWritten(path, url, raw) == [path |-> path, src |-> url, unmodified |-> raw]

\* sorted() of a set of URLs: Python compares strings character by character;
\* the URLs of the model first differ in a whole word, and WordOrder lists
\* those words in alphabetical order.
WordOrder == <<"details", "download", "x", "y", "z">>
WordRank(w) == IF w \in Range(WordOrder) THEN FirstIdx(WordOrder, {w}) ELSE 0
FirstDiff(a, b) ==
    IF \E i \in 1..Len(a) : i > Len(b) \/ a[i] # b[i]
    THEN CHOOSE i \in 1..Len(a) :
            /\ (i > Len(b) \/ a[i] # b[i])
            /\ \A j \in 1..(i - 1) : j <= Len(b) /\ a[j] = b[j]
    ELSE Len(a) + 1
LessAt(a, b, d) ==
    IF d > Len(a) THEN Len(b) > Len(a)
    ELSE IF d > Len(b) THEN FALSE
    ELSE WordRank(a[d]) < WordRank(b[d])
UrlLess(a, b) == LessAt(a, b, FirstDiff(a, b))
Least(S) == CHOOSE a \in S : \A b \in S \ {a} : UrlLess(a, b)
RECURSIVE Sorted(_)
Sorted(S) == IF S = {} THEN <<>> ELSE <<Least(S)>> \o Sorted(S \ {Least(S)})

\* ---------------------------------------------------- scrape_archive_item
DocExts == {"pdf", "txt", "doc", "docx"}
IsDocHref(href) == \E ext \in DocExts : EndsWith(Lower(href), <<".", ext>>)
\* The file links of an item page (lines 132-140).
FileLinks(item_url, hrefs) ==
    {urljoin(item_url, hrefs[i]) : i \in {j \in 1..Len(hrefs) : IsDocHref(hrefs[j])}}

\* One turn of the loop over the file links (lines 142-187); outcome is
\* "failed" (fetch returned None), "saved" or "save_failed" (the write raised).
FileSaved(brain, item_url, file_url, ct, out_path) ==
    Did(<<WithSource(WithParent(BinaryRec(brain, file_url, ct, out_path), item_url),
                     "archive_item_file")>>,
        <<FileWritten(out_path, file_url, TRUE)>>,
        <<Fetch(file_url, "file")>>)
FileStep(brain, item_url, file_url, outcome, ct) ==
    CASE outcome = "failed" ->
            Did(<<WithParent(ErrorRec(brain, file_url, "file_request_failed"), item_url)>>,
                <<>>, <<Fetch(file_url, "file")>>)
      [] outcome = "save_failed" ->
            Did(<<WithParent(SaveFailedRec(brain, file_url, "save_file_failed", ct),
                             item_url)>>,
                <<>>, <<Fetch(file_url, "file")>>)
      [] OTHER ->
            FileSaved(brain, item_url, file_url, ct,
                      get_binary_output_path(brain, file_url,
                                             get_extension_from_content_type(ct)))
RECURSIVE FileSteps(_, _, _, _)
FileSteps(brain, item_url, files, outcomes) ==
    IF files = <<>> THEN Did(<<>>, <<>>, <<>>)
    ELSE DidBoth(FileStep(brain, item_url, Head(files), outcomes[Head(files)],
                          HeaderCt(FileResponse(Head(files)))),
                 FileSteps(brain, item_url, Tail(files), outcomes))

\* The non-HTML branch (lines 188-218).
ItemRaw(brain, item_url, ct, saved, out_path) ==
    IF saved
    THEN Did(<<WithSource(BinaryRec(brain, item_url, ct, out_path), "archive_item_raw")>>,
             <<FileWritten(out_path, item_url, TRUE)>>, <<>>)
    ELSE Did(<<WithSource(SaveFailedRec(brain, item_url, "save_item_failed", ct),
                          "archive_item_raw")>>,
             <<>>, <<>>)

\* scrape_archive_item(brain, item_url): resp is what fetch returned, outcomes
\* what became of each file link, saved whether the raw item could be written.
scrape_archive_item(brain, item_url, resp, outcomes, saved) ==
    IF resp = None
    THEN Did(<<ErrorRec(brain, item_url, "item_request_failed")>>, <<>>,
             <<Fetch(item_url, "item")>>)
    ELSE IF IsHtml(resp[1])
    THEN DidBoth(Did(<<WithSource(HtmlRec(brain, item_url, HeaderCt(resp[1])),
                                  "archive_item_page")>>,
                     <<>>, <<Fetch(item_url, "item")>>),
                 FileSteps(brain, item_url, Sorted(FileLinks(item_url, resp[1].hrefs)),
                           outcomes))
    ELSE DidBoth(Did(<<>>, <<>>, <<Fetch(item_url, "item")>>),
                 ItemRaw(brain, item_url, HeaderCt(resp[1]), saved,
                         get_binary_output_path(
                             brain, item_url,
                             get_extension_from_content_type(HeaderCt(resp[1])))))

\* What may become of the file links of an item page and of a raw write.
FileOutcomes(file_url) ==
    {"failed", "saved"} \cup (IF file_url \in FaultyFiles THEN {"save_failed"} ELSE {})
OutcomesOf(files) == {o \in [files -> {"failed", "saved", "save_failed"}] :
                         \A u \in files : o[u] \in FileOutcomes(u)}
FilesOf(item_url, resp) ==
    IF resp # None /\ IsHtml(resp[1]) THEN FileLinks(item_url, resp[1].hrefs) ELSE {}
SaveOutcomes(url, resp) ==
    IF resp # None /\ ~IsHtml(resp[1]) /\ url \in FaultyFiles THEN BOOLEAN ELSE {TRUE}
Fetched(responses) == {None} \cup {Some(r) : r \in responses}

\* ------------------------------------------------------------ the actions
\* append_jsonl_record for each record of recs, in order, on the file of brain.
RECURSIVE AppendRecs(_, _)
AppendRecs(log, recs) ==
    IF recs = <<>> THEN log
    ELSE AppendRecs(append_jsonl_record(log, Head(recs)), Tail(recs))
AppendAll(log, brain, recs) == [log EXCEPT ![brain] = AppendRecs(@, recs)]
Seed == brains[brainIdx]

\* scrape_url_for_brain for a URL that is not a search page (lines 293-358).
PlainBinary(brain, url, ct, saved, out_path) ==
    IF saved
    THEN Did(<<BinaryRec(brain, url, ct, out_path)>>,
             <<FileWritten(out_path, url, TRUE)>>, <<Fetch(url, "url")>>)
    ELSE Did(<<SaveFailedRec(brain, url, "save_binary_failed", ct)>>, <<>>,
             <<Fetch(url, "url")>>)
scrape_url_for_brain(brain, url, resp, saved) ==
    IF resp = None
    THEN Did(<<ErrorRec(brain, url, "request_failed")>>, <<>>, <<Fetch(url, "url")>>)
    ELSE IF IsHtml(resp[1])
    THEN Did(<<HtmlRec(brain, url, HeaderCt(resp[1]))>>, <<>>, <<Fetch(url, "url")>>)
    ELSE PlainBinary(brain, url, HeaderCt(resp[1]), saved,
                     get_binary_output_path(
                         brain, url, get_extension_from_content_type(HeaderCt(resp[1]))))

\* scrape_all_brains, lines 364-366, for a seed that is not a search page:
\* scrape_url_for_brain, then time.sleep(delay).
ScrapeUrl ==
    /\ scrapePc = "loop"
    /\ brainIdx <= Len(brains)
    /\ ~is_archive_search(Seed.url)
    /\ \E resp \in Fetched(PlainResponses) :
          \E saved \in SaveOutcomes(Seed.url, resp) :
             /\ jsonl' = AppendAll(jsonl, Seed.brain,
                                   scrape_url_for_brain(Seed.brain, Seed.url, resp, saved).recs)
             /\ rawFiles' = rawFiles
                              \o scrape_url_for_brain(Seed.brain, Seed.url, resp, saved).files
             /\ netLog' = netLog
                            \o scrape_url_for_brain(Seed.brain, Seed.url, resp, saved).net
                            \o <<Sleep("seed")>>
    /\ brainIdx' = brainIdx + 1
    /\ UNCHANGED <<brains, endpoint, quota, scrapePc, search, pageLog, itemLog>>
    /\ UNCHANGED crawlVars
    /\ UNCHANGED htmlVars
    /\ UNCHANGED archiveVars

\* scrape_archive_search is entered (lines 288-290, 227-237).
StartSearch(brain, parsed, max_items) ==
    [brain |-> brain,
     base_root |-> parsed.scheme \o <<":", "/", "/">> \o parsed.netloc \o parsed.path,
     base_query |-> parsed.query,
     max_items |-> max_items,
     page |-> 1,
     scraped_items |-> 0,
     seen_items |-> {},
     pending |-> <<>>]
ScrapeArchive ==
    /\ scrapePc = "loop"
    /\ brainIdx <= Len(brains)
    /\ is_archive_search(Seed.url)
    /\ search' = StartSearch(Seed.brain, urlparse(Seed.url), quota)
    /\ scrapePc' = "page"
    /\ UNCHANGED <<brains, endpoint, quota, brainIdx, jsonl, rawFiles, netLog, pageLog,
                   itemLog>>
    /\ UNCHANGED crawlVars
    /\ UNCHANGED htmlVars
    /\ UNCHANGED archiveVars

\* Lines 240-243: the URL of the page the cursor is at.
PageUrl(sr) ==
    IF sr.base_query # <<>>
    THEN sr.base_root \o <<"?">> \o sr.base_query \o <<"&", "page", "=", ToString(sr.page)>>
    ELSE sr.base_root \o <<"?", "page", "=", ToString(sr.page)>>

\* A scan that takes every anchor of a result page for an item link.
ItemLinksAnyHref(hrefs) == {urljoin(Archive, hrefs[i]) : i \in 1..Len(hrefs)}

\* Lines 254-259: the item links of a result page.
ItemLinks(hrefs) ==
    {urljoin(Archive, hrefs[i]) :
        i \in {j \in 1..Len(hrefs) : StartsWith(hrefs[j], <<"/", "details", "/">>)}}

PageAsked(sr, ok, links) ==
    [page |-> sr.page, url |-> PageUrl(sr), ok |-> ok, links |-> links,
     seen |-> sr.seen_items, scraped |-> sr.scraped_items, max_items |-> sr.max_items]

\* scrape_archive_search returns to scrape_url_for_brain, which returns to
\* scrape_all_brains, which sleeps and goes to its next seed.
SearchReturns ==
    /\ scrapePc' = "loop"
    /\ brainIdx' = brainIdx + 1
    /\ search' = [search EXCEPT !.pending = <<>>]

\* A quota test that lets one item too many through.
QuotaLeftOffByOne(sr) == sr.scraped_items <= sr.max_items

\* scraped_items < max_items (line 239), the negation of line 266.
QuotaLeft(sr) == sr.scraped_items < sr.max_items

\* A crawl that goes on to the next page when a page could not be fetched.
PageStopsOnlyWhenEmpty(ok, links) == ok /\ links = {}

\* Lines 247-249 and 261-263: fetch returned None, or the page has no item
\* link: break.
PageStops(ok, links) == ~ok \/ links = {}

\* while scraped_items < max_items: the page is fetched (lines 239-263).  A
\* failed fetch and a page with no item link end the crawl; otherwise the for
\* loop over sorted(item_links) is entered.
SearchPageGot(ok, links) ==
    /\ pageLog' = Append(pageLog, PageAsked(search, ok, links))
    /\ IF ~PageStops(ok, links)
       THEN /\ search' = [search EXCEPT !.pending = Sorted(links)]
            /\ scrapePc' = "items"
            /\ netLog' = Append(netLog, Fetch(PageUrl(search), "page"))
            /\ UNCHANGED brainIdx
       ELSE /\ SearchReturns
            /\ netLog' = netLog \o <<Fetch(PageUrl(search), "page"), Sleep("seed")>>
SearchPage ==
    /\ scrapePc = "page"
    /\ QuotaLeft(search)
    /\ search.page <= MaxPage
    /\ \E ok \in BOOLEAN :
          SearchPageGot(ok, IF ok THEN ItemLinks(PageAt(endpoint, search.page)) ELSE {})
    /\ UNCHANGED <<brains, endpoint, quota, jsonl, rawFiles, itemLog>>
    /\ UNCHANGED crawlVars
    /\ UNCHANGED htmlVars
    /\ UNCHANGED archiveVars

\* The while condition fails: the quota is reached (line 239, then 279).
SearchQuotaReached ==
    /\ scrapePc = "page"
    /\ ~QuotaLeft(search)
    /\ SearchReturns
    /\ netLog' = Append(netLog, Sleep("seed"))
    /\ UNCHANGED <<brains, endpoint, quota, jsonl, rawFiles, pageLog, itemLog>>
    /\ UNCHANGED crawlVars
    /\ UNCHANGED htmlVars
    /\ UNCHANGED archiveVars

\* Lines 276-277: page += 1; time.sleep(delay).
NextPage(sr) == [sr EXCEPT !.page = @ + 1, !.pending = <<>>]

\* Lines 266-267: the quota is reached inside the for loop: break.
ItemQuotaBreak ==
    /\ scrapePc = "items"
    /\ search.pending # <<>>
    /\ ~QuotaLeft(search)
    /\ search' = NextPage(search)
    /\ scrapePc' = "page"
    /\ netLog' = Append(netLog, Sleep("page"))
    /\ UNCHANGED <<brains, endpoint, quota, brainIdx, jsonl, rawFiles, pageLog, itemLog>>
    /\ UNCHANGED crawlVars
    /\ UNCHANGED htmlVars
    /\ UNCHANGED archiveVars

\* Lines 268-269: an item seen before is passed over.
ItemSeen ==
    /\ scrapePc = "items"
    /\ search.pending # <<>>
    /\ QuotaLeft(search)
    /\ Head(search.pending) \in search.seen_items
    /\ search' = [search EXCEPT !.pending = Tail(@)]
    /\ UNCHANGED <<brains, endpoint, quota, scrapePc, brainIdx, jsonl, rawFiles, netLog,
                   pageLog, itemLog>>
    /\ UNCHANGED crawlVars
    /\ UNCHANGED htmlVars
    /\ UNCHANGED archiveVars

\* An item-loop that does not remember the items it has handed on.
SeenAddForgotten(seen_items, item_url) == seen_items

\* seen_items.add(item_url)
SeenAdd(seen_items, item_url) == seen_items \cup {item_url}

\* Lines 270-274: a new item is counted, scraped, and the delay is slept.
ItemDone(sr, item_url, did, resp, outcomes) ==
    /\ search' = [sr EXCEPT !.seen_items = SeenAdd(@, item_url),
                            !.scraped_items = @ + 1,
                            !.pending = Tail(@)]
    /\ jsonl' = AppendAll(jsonl, sr.brain, did.recs)
    /\ rawFiles' = rawFiles \o did.files
    /\ netLog' = netLog \o did.net \o <<Sleep("item")>>
    /\ itemLog' = Append(itemLog, [item |-> item_url, page |-> sr.page,
                                   scraped |-> sr.scraped_items + 1,
                                   max_items |-> sr.max_items,
                                   resp |-> resp, outcomes |-> outcomes])
ItemScrape ==
    /\ scrapePc = "items"
    /\ search.pending # <<>>
    /\ QuotaLeft(search)
    /\ Head(search.pending) \notin search.seen_items
    /\ \E resp \in Fetched(ItemResponses(Head(search.pending))) :
          \E outcomes \in OutcomesOf(FilesOf(Head(search.pending), resp)),
             saved \in SaveOutcomes(Head(search.pending), resp) :
                ItemDone(search, Head(search.pending),
                         scrape_archive_item(search.brain, Head(search.pending), resp,
                                             outcomes, saved),
                         resp, outcomes)
    /\ UNCHANGED <<brains, endpoint, quota, scrapePc, brainIdx, pageLog>>
    /\ UNCHANGED crawlVars
    /\ UNCHANGED htmlVars
    /\ UNCHANGED archiveVars

\* The for loop is over: page += 1; time.sleep(delay) (lines 276-277).
PageEnd ==
    /\ scrapePc = "items"
    /\ search.pending = <<>>
    /\ search' = NextPage(search)
    /\ scrapePc' = "page"
    /\ netLog' = Append(netLog, Sleep("page"))
    /\ UNCHANGED <<brains, endpoint, quota, brainIdx, jsonl, rawFiles, pageLog, itemLog>>
    /\ UNCHANGED crawlVars
    /\ UNCHANGED htmlVars
    /\ UNCHANGED archiveVars

\* scrape_all_brains has gone through every seed and returns.
ScrapeDone ==
    /\ scrapePc = "loop"
    /\ brainIdx > Len(brains)
    /\ scrapePc' = "done"
    /\ UNCHANGED <<brains, endpoint, quota, brainIdx, search, jsonl, rawFiles, netLog,
                   pageLog, itemLog>>
    /\ UNCHANGED crawlVars
    /\ UNCHANGED htmlVars
    /\ UNCHANGED archiveVars

Next ==
    \/ MainCallSeed
    \/ MainDone
    \/ SafeGetOk
    \/ SafeGetFail
    \/ SafeGetGiveUp
    \/ FetchFailed
    \/ Extract
    \/ LoopSkip
    \/ LoopCall
    \/ LoopEnd
    \/ PersistOk
    \/ PersistRaise
    \/ ScrapeUrl
    \/ ScrapeArchive
    \/ SearchPage
    \/ SearchQuotaReached
    \/ ItemQuotaBreak
    \/ ItemSeen
    \/ ItemScrape
    \/ PageEnd
    \/ ScrapeDone

Spec == Init /\ [][Next]_vars

\* ===================================================== the HTML branch
\* Lines 292-340 of process_url on one parsed document: the article text, the
\* publish date and the links.
\* ------------------------------------------------------------ publish date
\* Lines 311-317: the sources of the publish date, in the order they are tried.
DateTags ==
    <<[tag |-> "meta", key |-> "article:published_time"],
      [tag |-> "meta", key |-> "date"],
      [tag |-> "meta", key |-> "publication_date"],
      [tag |-> "meta", key |-> "pubdate"],
      [tag |-> "time", key |-> "time"]>>

\* dateutil's parser.parse(text): a text that starts with a year is a date, any
\* other text raises; isoformat() of the date parsed.
Parses(text) == text # <<>> /\ text[1] = "2024"
isoformat(text) == text \o <<"T", "00", ":", "00", ":", "00">>

\* The for loop of lines 311-336 from its k-th turn on, published being
\* result['published'] so far.  A meta content that does not parse is stored
\* raw by the inner except clause (line 326) and the loop goes on; a datetime
\* attribute that does not parse raises to the outer except clause (line 335).
RECURSIVE PublishedLoop(_, _, _)
PublishedLoop(doc, k, published) ==
    IF k > Len(DateTags) THEN published
    ELSE IF DateTags[k].tag = "meta"
    THEN IF doc.meta[DateTags[k].key] # None /\ doc.meta[DateTags[k].key][1] # <<>>
         THEN IF Parses(doc.meta[DateTags[k].key][1])
              THEN Some(isoformat(doc.meta[DateTags[k].key][1]))
              ELSE PublishedLoop(doc, k + 1, Some(doc.meta[DateTags[k].key][1]))
         ELSE PublishedLoop(doc, k + 1, published)
    ELSE IF doc.time # None /\ doc.time[1].datetime # <<>>
    THEN IF Parses(doc.time[1].datetime)
         THEN Some(isoformat(doc.time[1].datetime))
         ELSE PublishedLoop(doc, k + 1, published)
    ELSE IF doc.time # None /\ Strip(doc.time[1].text) # <<>>
    THEN Some(Strip(doc.time[1].text))
    ELSE PublishedLoop(doc, k + 1, published)

\* ------------------------------------------------------------ article text
CANDIDATE_LIMIT == 40
BLOCK_MIN == 200
PARAGRAPH_LIMIT == 50

\* len() of a text: a token is one character wide, but for the token that
\* stands for a run of 200 characters.
Width(t) == IF t = "lorem200" THEN 200 ELSE 1
RECURSIVE StrLen(_)
StrLen(text) == IF text = <<>> THEN 0 ELSE Width(Head(text)) + StrLen(Tail(text))

\* soup.find_all(tags), and "".join(texts).
find_all(doc, tags) == SelectSeq(doc.elems, LAMBDA e : e.tag \in tags)
RECURSIVE Join(_)
Join(texts) == IF texts = <<>> THEN <<>> ELSE Head(texts) \o Join(Tail(texts))

\* Lines 167-174: the first candidate of the largest stripped text.
RECURSIVE BestOf(_, _, _)
BestOf(candidates, best, best_len) ==
    IF candidates = <<>> THEN [best |-> best, best_len |-> best_len]
    ELSE IF StrLen(Strip(Head(candidates).text)) > best_len
    THEN BestOf(Tail(candidates), Strip(Head(candidates).text),
                StrLen(Strip(Head(candidates).text)))
    ELSE BestOf(Tail(candidates), best, best_len)

\* Line 180: the stripped texts of the paragraphs that are not empty.
StrippedTexts(ps) == [i \in 1..Len(ps) |-> Strip(ps[i].text)]
NonEmptyTexts(ps) == SelectSeq(StrippedTexts(ps), LAMBDA t : t # <<>>)

\* A fallback that joins every paragraph of the page.
TopParagraphsAll(texts) == texts

\* texts[:50]
TopParagraphs(texts) == Take(texts, PARAGRAPH_LIMIT)

\* extract_main_article_text (lines 157-184).  A Tag is true also when it is
\* empty, so article and main are tested for presence only.
extract_main_article_text(doc) ==
    IF find_all(doc, {"article"}) # <<>> THEN Head(find_all(doc, {"article"})).text
    ELSE IF find_all(doc, {"main"}) # <<>> THEN Head(find_all(doc, {"main"})).text
    ELSE IF BestOf(Take(find_all(doc, {"div", "section", "article", "body"}),
                        CANDIDATE_LIMIT), <<>>, 0).best_len > BLOCK_MIN
    THEN BestOf(Take(find_all(doc, {"div", "section", "article", "body"}),
                     CANDIDATE_LIMIT), <<>>, 0).best
    ELSE IF NonEmptyTexts(find_all(doc, {"p"})) # <<>>
    THEN Join(TopParagraphs(NonEmptyTexts(find_all(doc, {"p"}))))
    ELSE doc.text

\* ------------------------------------------------------------ the documents
\* The longest list of elements and of anchors of the documents that are
\* enumerated (the documents that reach the limits 40 and 50 are added one
\* by one).
MaxElems == 3
MaxAnchors == 3

Elem(tag, text) == [tag |-> tag, text |-> text]
ElemKinds ==
    {Elem("article", <<" ", "art", " ">>),
     Elem("article", <<>>),
     Elem("main", <<"main">>),
     Elem("div", <<" ", "lorem200", "a", " ">>),
     Elem("div", <<"lorem200">>),
     Elem("section", <<"lorem200", "b", "c">>),
     Elem("section", <<"lorem200", "d">>),
     Elem("p", <<" ", "p1", " ">>),
     Elem("p", <<" ">>),
     Elem("p", <<"p2">>)}
TextsOf(elems) == [i \in 1..Len(elems) |-> elems[i].text]
\* A document of elements that do not lie in one another.
Flat(elems) ==
    [NoDocument EXCEPT !.url = UrlA, !.req = UrlA, !.elems = elems,
                       !.text = Join(TextsOf(elems))]
\* 40 small blocks before a large one; 51 paragraphs; two paragraphs in a
\* small block; a page with no element at all.
ManyBlocks ==
    Flat([i \in 1..CANDIDATE_LIMIT |-> Elem("div", <<"d">>)]
         \o <<Elem("section", <<"lorem200", "b", "c">>), Elem("p", <<"p2">>)>>)
ManyParagraphs == Flat([i \in 1..(PARAGRAPH_LIMIT + 1) |-> Elem("p", <<"w", ToString(i), " ">>)])
Nested ==
    [Flat(<<Elem("div", <<"p1", " ", "p2">>), Elem("p", <<"p1", " ">>), Elem("p", <<"p2">>)>>)
        EXCEPT !.text = <<"p1", " ", "p2">>]
TextOnly == [Flat(<<>>) EXCEPT !.text = <<" ", "plain", " ">>]
ArticleDocs ==
    {Flat(e) : e \in UNION {[1..n -> ElemKinds] : n \in 0..MaxElems}}
    \cup {ManyBlocks, ManyParagraphs, Nested, TextOnly}

\* The contents of the date sources: each source has a date and a text that
\* is no date of its own.
Day(key) ==
    CASE key = "article:published_time" -> "01"
      [] key = "date" -> "02"
      [] key = "publication_date" -> "03"
      [] key = "pubdate" -> "04"
      [] OTHER -> "05"
GoodDate(key) == <<"2024", "-", "01", "-", Day(key)>>
BadDate(key) == <<"soon", Day(key)>>
MetaContent(key, kind) ==
    CASE kind = "none" -> None
      [] kind = "empty" -> Some(<<>>)
      [] kind = "good" -> Some(GoodDate(key))
      [] OTHER -> Some(BadDate(key))
TimeElems ==
    {None} \cup {Some([datetime |-> d, text |-> t]) :
                    d \in {<<>>, GoodDate("time"), BadDate("time")},
                    t \in {<<>>, <<" ">>, <<" ", "May", "2024", " ">>}}
DateDocs ==
    {[NoDocument EXCEPT !.url = UrlA, !.req = UrlA,
                        !.meta = [key \in MetaKeys |-> MetaContent(key, kinds[key])],
                        !.time = t] :
        kinds \in [MetaKeys -> {"none", "empty", "good", "bad"}], t \in TimeElems}

\* The anchors of a page, and the pages they stand on: one fetched as asked
\* for, one reached by a redirect into another directory.
HrefKinds ==
    {UrlB, <<"#", "top">>, <<" ", "JavaScript", ":", "void">>, <<"/", "c">>, <<"c">>,
     <<>>, <<" ", "c", " ">>}
UrlDeep == Https \o <<"example", ".", "com", "/", "dir", "/", "p">>
LinkDocs ==
    {[NoDocument EXCEPT !.url = u[1], !.req = u[2], !.hrefs = h] :
        u \in {<<UrlA, UrlA>>, <<UrlDeep, UrlD>>},
        h \in UNION {[1..n -> HrefKinds] : n \in 0..MaxAnchors}}

Documents == ArticleDocs \cup DateDocs \cup LinkDocs

\* ------------------------------------------------------------ the action
HtmlInit ==
    /\ html \in Documents
    /\ extracted = None
    /\ seeds = <<>>
    /\ maxDepth = MAX_CRAWL_DEPTH
    /\ tunables = Shipped
    /\ mainPc = "off"
    /\ brains = <<>>
    /\ endpoint = [pages |-> <<>>, endless |-> FALSE]
    /\ quota = 0
    /\ scrapePc = "off"
    /\ library = NoLibrary
    /\ archive = NoArchive
    /\ NothingDone

\* Lines 292-340: extract_text_from_html (lines 148-154), the metadata, the
\* links.
ExtractHtml ==
    /\ extracted = None
    /\ extracted' =
          Some([full_text |-> Strip(html.text),
                article |-> extract_main_article_text(html),
                article_text |-> Strip(extract_main_article_text(html)),
                published |-> PublishedLoop(html, 1, None),
                links |-> discover_links(html.hrefs, html.url),
                discovered_links |-> CapLinks(discover_links(html.hrefs, html.url))])
    /\ UNCHANGED html
    /\ UNCHANGED crawlVars
    /\ UNCHANGED scrapeVars
    /\ UNCHANGED archiveVars

HtmlNext == ExtractHtml

HtmlSpec == HtmlInit /\ [][HtmlNext]_vars

\* ================================================================ archive.py
\* ---------------------------------------------------------------- bounds
\* The most docs archive.org holds for a query, the most files an item lists,
\* the largest max_items asked for, and the rows of one page of the search.
MaxDocs == 3
MaxFiles == 2
MaxItems == 3
Rows == 2

\* ------------------------------------------------------------ the query
\* urllib.parse.unquote_plus: "+" is a blank, %XX is the character it encodes.
UnquoteTok(t) ==
    CASE t = "+" -> " "
      [] t = "%22" -> "\""
      [] t = "%2B" -> "+"
      [] OTHER -> t
unquote_plus(s) == [i \in 1..Len(s) |-> UnquoteTok(s[i])]

\* parse_qs(query).get(key, [""])[0]: the parameters are cut at "&", the ones
\* with a blank value are dropped, the values are decoded.
RECURSIVE ParamValue(_, _)
ParamValue(query, key) ==
    IF query = <<>> THEN <<>>
    ELSE LET c == Cut(query, {"&"})
             first == c[1]
             rest == Drop(c[2], 1)
         IN  IF Len(first) > 2 /\ first[1] = key /\ first[2] = "="
             THEN unquote_plus(Drop(first, 2))
             ELSE ParamValue(rest, key)

\* Lines 36-48.
extract_query_from_search_url(search_url) ==
    LET q == ParamValue(urlparse(search_url).query, "query")
    IN  IF q = <<>> THEN None ELSE Some(unquote_plus(q))

UrlSearchQuoted ==
    Archive \o <<"/", "search", "?", "query", "=", "%22", "service", "+", "agreement", "%22">>
UrlSearchPaged ==
    Archive \o <<"/", "search", "?", "page", "=", "2", "&", "query", "=", "nda">>
UrlNoQuery == Archive \o <<"/", "search", "?", "query", "=">>
SearchUrls == {UrlSearchQuoted, UrlSearchPaged, UrlNoQuery}

\* ------------------------------------------------------------ the library
DocX == [identifier |-> <<"x">>, title |-> Some(<<"NDA">>)]
DocY == [identifier |-> <<"y">>, title |-> Some(<<"MSA">>)]
DocZ == [identifier |-> <<"z">>, title |-> None]
DocLists == {<<>>, <<DocX>>, <<DocY, DocX>>, <<DocX, DocY, DocZ>>, <<DocZ, DocY, DocX>>}

\* numFound is the number of docs, or a count the server overstates by a page.
Libraries ==
    UNION {{[docs |-> d, num_found |-> Len(d)], [docs |-> d, num_found |-> Len(d) + Rows]} :
           d \in {d \in DocLists : Len(d) <= MaxDocs}}

\* The files an item's metadata lists: their name and their format.
FileDjvu == [name |-> <<"a", "_", "djvu", ".", "txt">>, format |-> <<"DjVuTXT">>]
FileText == [name |-> <<"a", ".", "txt">>, format |-> <<"Text">>]
FileNotes == [name |-> <<"notes", ".", "TXT">>, format |-> <<>>]
FileTextPdf == [name |-> <<"a", ".", "pdf">>, format |-> <<"Text", " ", "PDF">>]
FileScanPdf == [name |-> <<"a", "_", "scan", ".", "pdf">>,
                format |-> <<"Image", " ", "Container", " ", "PDF">>]
FileJpg == [name |-> <<"a", ".", "jpg">>, format |-> <<"JPEG">>]
FileKinds == {FileDjvu, FileText, FileNotes, FileTextPdf, FileScanPdf, FileJpg}
FileLists == UNION {[1..n -> FileKinds] : n \in 0..MaxFiles}

\* What fetch_metadata(identifier) can give as "files".
MetadataFiles(identifier) ==
    CASE identifier = DocX.identifier -> FileLists
      [] identifier = DocY.identifier -> {<<FileScanPdf>>}
      [] OTHER -> {<<>>}

\* ------------------------------------------------------ search_archive_docs
\* The docs of one page of the search, as archive.org serves them.
PageOfDocs(lib, page, rows) ==
    SubSeq(lib.docs, (page - 1) * rows + 1,
           IF page * rows < Len(lib.docs) THEN page * rows ELSE Len(lib.docs))

\* math.ceil(num_found / rows).
TotalPages(num_found, rows) == (num_found + rows - 1) \div rows

\* Lines 85-88: every doc is appended, the loop breaks once max_items are held.
RECURSIVE AppendDocs(_, _, _)
AppendDocs(all_docs, docs, max_items) ==
    IF docs = <<>> THEN all_docs
    ELSE IF Len(all_docs) + 1 >= max_items THEN Append(all_docs, Head(docs))
    ELSE AppendDocs(Append(all_docs, Head(docs)), Tail(docs), max_items)

\* ------------------------------------------------------ choose_text_and_pdf
\* Line 121 and line 129: the tests of the two loops.
IsTextFile(f) ==
    \/ Contains(Lower(f.format), <<"djvutxt">>)
    \/ Contains(Lower(f.format), <<"text">>)
    \/ EndsWith(Lower(f.name), <<".", "txt">>)
IsPdfFile(f) ==
    \/ Contains(Lower(f.format), <<"pdf">>)
    \/ EndsWith(Lower(f.name), <<".", "pdf">>)

\* for f in files: if test(f): found = f; break -- the first file of the list
\* among those at the indices that pass the test, None when there is none.
FirstOf(files, passing) ==
    IF passing = {} THEN None
    ELSE Some(files[CHOOSE i \in passing : \A j \in passing : i <= j])

\* Lines 107-134.
choose_text_and_pdf(files) ==
    [text_file |-> FirstOf(files, {i \in 1..Len(files) : IsTextFile(files[i])}),
     pdf_file |-> FirstOf(files, {i \in 1..Len(files) : IsPdfFile(files[i])})]

\* ------------------------------------------------------------ download_file
\* archive.py's safe_filename (lines 32-33): alphanumerics and " ", ".", "_",
\* "-" are kept, the result is stripped.
ArchiveSafeChars == {" ", ".", "_", "-"}
archive_safe_filename(name) ==
    Strip(SelectSeq(name, LAMBDA c : c \notin Punct \/ c \in ArchiveSafeChars))

ARCHIVE_RAW_DIR == <<"legal_rag_data", "/", "archive_raw">>
DownloadPath(identifier, fileinfo) ==
    ARCHIVE_RAW_DIR \o <<"/">> \o archive_safe_filename(identifier \o <<"_">> \o fileinfo.name)

\* What can happen to the file chosen for an item: the download raises, the
\* text file cannot be read, PyPDFLoader raises, or all goes well.  A file that
\* is on disk already is not downloaded (lines 147-148).
Fates(chosen, identifier, disk) ==
    IF chosen.text_file # None
    THEN {"ok", "read_failed"} \cup
         (IF DownloadPath(identifier, chosen.text_file[1]) \in disk THEN {}
          ELSE {"download_failed"})
    ELSE IF chosen.pdf_file # None
    THEN {"ok", "extract_failed"} \cup
         (IF DownloadPath(identifier, chosen.pdf_file[1]) \in disk THEN {}
          ELSE {"download_failed"})
    ELSE {"ok"}

\* What open(src_path).read() gives, and what the pages of the PDF give.
ReadText(fileinfo) == <<"contents", " ", "of", " ">> \o fileinfo.name
\* Lines 159-169: every exception of the loader is caught, "" is returned.
archive_extract_text_from_pdf(fileinfo, loads) ==
    IF loads THEN <<"pages", " ", "of", " ">> \o fileinfo.name ELSE <<>>

\* Lines 234-252: text_content, file_type and src_path after the try block,
\* and the files on disk.
FetchedFile(identifier, chosen, fate, disk) ==
    IF chosen.text_file # None
    THEN LET path == DownloadPath(identifier, chosen.text_file[1])
         IN  IF fate = "download_failed"
             THEN [text |-> <<>>, file_type |-> "none", source_file |-> None, disk |-> disk]
             ELSE IF fate = "read_failed"
             THEN [text |-> <<>>, file_type |-> "none", source_file |-> Some(path),
                   disk |-> disk \cup {path}]
             ELSE [text |-> ReadText(chosen.text_file[1]), file_type |-> "text",
                   source_file |-> Some(path), disk |-> disk \cup {path}]
    ELSE IF chosen.pdf_file # None
    THEN LET path == DownloadPath(identifier, chosen.pdf_file[1])
         IN  IF fate = "download_failed"
             THEN [text |-> <<>>, file_type |-> "none", source_file |-> None, disk |-> disk]
             ELSE [text |-> archive_extract_text_from_pdf(chosen.pdf_file[1],
                                                          fate # "extract_failed"),
                   file_type |-> "pdf", source_file |-> Some(path),
                   disk |-> disk \cup {path}]
    ELSE [text |-> <<>>, file_type |-> "none", source_file |-> None, disk |-> disk]

\* Lines 254-267 and lines 216-227: the item of one doc.
ItemUrl(identifier) == Archive \o <<"/", "details", "/">> \o identifier
item_record(d, got) ==
    [item_url |-> ItemUrl(d.identifier), identifier |-> d.identifier, title |-> d.title,
     file_type |-> got.file_type, source_file |-> got.source_file, text |-> got.text,
     error |-> None]
failed_record(d) ==
    [item_url |-> ItemUrl(d.identifier), identifier |-> d.identifier, title |-> d.title,
     file_type |-> "none", source_file |-> None, text |-> <<>>,
     error |-> Some(<<"metadata_failed">>)]

\* ------------------------------------------------------------ the actions
ArchiveInit ==
    /\ library \in Libraries
    /\ \E search_url \in SearchUrls, max_items \in 0..MaxItems,
          disk \in {{}, {DownloadPath(DocY.identifier, FileScanPdf)}} :
          archive = ArchiveCall("start", search_url, max_items, Rows, disk)
    /\ html = NoDocument
    /\ extracted = None
    /\ seeds = <<>>
    /\ maxDepth = MAX_CRAWL_DEPTH
    /\ tunables = Shipped
    /\ mainPc = "off"
    /\ brains = <<>>
    /\ endpoint = [pages |-> <<>>, endless |-> FALSE]
    /\ quota = 0
    /\ scrapePc = "off"
    /\ NothingDone

ArchiveIdle ==
    /\ UNCHANGED library
    /\ UNCHANGED crawlVars
    /\ UNCHANGED scrapeVars
    /\ UNCHANGED htmlVars

\* Lines 201-203: the query of the search URL, ValueError when there is none.
ExtractQuery ==
    /\ archive.pc = "start"
    /\ LET query == extract_query_from_search_url(archive.search_url)
       IN  archive' = IF query = None THEN [archive EXCEPT !.pc = "raised"]
                      ELSE [archive EXCEPT !.pc = "search", !.query = query]
    /\ ArchiveIdle

\* Line 59: the while condition is false.
SearchLoopEnds ==
    /\ archive.pc = "search"
    /\ ~(Len(archive.all_docs) < archive.max_items)
    /\ archive' = [archive EXCEPT !.pc = "items"]
    /\ ArchiveIdle

\* Lines 76-77: the request raises, or raise_for_status does.
SearchRaises ==
    /\ archive.pc = "search"
    /\ Len(archive.all_docs) < archive.max_items
    /\ archive' = [archive EXCEPT !.pc = "raised"]
    /\ ArchiveIdle

\* Lines 59-95: one turn of the while loop of search_archive_docs.
SearchTurn ==
    /\ archive.pc = "search"
    /\ Len(archive.all_docs) < archive.max_items
    /\ LET docs == PageOfDocs(library, archive.page, archive.rows)
           all_docs == AppendDocs(archive.all_docs, docs, archive.max_items)
           total_pages == TotalPages(library.num_found, archive.rows)
       IN  archive' =
             IF docs = <<>> THEN [archive EXCEPT !.pc = "items"]
             ELSE IF archive.page >= total_pages \/ Len(all_docs) >= archive.max_items
             THEN [archive EXCEPT !.all_docs = all_docs, !.pc = "items"]
             ELSE [archive EXCEPT !.all_docs = all_docs, !.page = @ + 1]
    /\ ArchiveIdle

\* Lines 212-228: fetch_metadata raises.
MetadataFailed ==
    /\ archive.pc = "items"
    /\ archive.idx <= Len(archive.all_docs)
    /\ LET d == archive.all_docs[archive.idx]
       IN  archive' = [archive EXCEPT
                         !.items = Append(@, failed_record(d)),
                         !.calls = Append(@, [identifier |-> d.identifier,
                                              metadata |-> FALSE, files |-> <<>>,
                                              chosen |-> choose_text_and_pdf(<<>>),
                                              fate |-> "metadata_failed"]),
                         !.idx = @ + 1]
    /\ ArchiveIdle

\* Lines 212-267: the metadata is fetched, a file is chosen, fetched and read.
ItemRecord ==
    /\ archive.pc = "items"
    /\ archive.idx <= Len(archive.all_docs)
    /\ LET d == archive.all_docs[archive.idx]
       IN  \E files \in MetadataFiles(d.identifier) :
             LET chosen == choose_text_and_pdf(files)
             IN  \E fate \in Fates(chosen, d.identifier, archive.disk) :
                   LET got == FetchedFile(d.identifier, chosen, fate, archive.disk)
                   IN  archive' = [archive EXCEPT
                                     !.items = Append(@, item_record(d, got)),
                                     !.calls = Append(@, [identifier |-> d.identifier,
                                                          metadata |-> TRUE,
                                                          files |-> files,
                                                          chosen |-> chosen,
                                                          fate |-> fate]),
                                     !.disk = got.disk,
                                     !.idx = @ + 1]
    /\ ArchiveIdle

\* Line 269: every doc has its item, the items are returned.
ItemsReturned ==
    /\ archive.pc = "items"
    /\ archive.idx > Len(archive.all_docs)
    /\ archive' = [archive EXCEPT !.pc = "returned"]
    /\ ArchiveIdle

ArchiveNext ==
    \/ ExtractQuery
    \/ SearchLoopEnds
    \/ SearchRaises
    \/ SearchTurn
    \/ MetadataFailed
    \/ ItemRecord
    \/ ItemsReturned

ArchiveSpec == ArchiveInit /\ [][ArchiveNext]_vars

\* ================================================================ properties
Idx(seq) == 1..Len(seq)
Frames == {stack[i] : i \in Idx(stack)}

\* The Records of the JSON documents written and of the lines appended to
\* combined.jsonl that carry source URL u.
JsonDocsOf(u) == {i \in Idx(jsonWrites) : jsonWrites[i].rec.source_url = u}
CombinedOf(u) ==
    {i \in Idx(combined) : combined[i].kind = "json" /\ combined[i].rec.source_url = u}
EndedOf(u) == {i \in Idx(ended) : ended[i].src = u}
TasksOf(u) == {i \in Idx(taskLog) : taskLog[i].src = u}
ChildrenOf(u) == {i \in Idx(taskLog) : taskLog[i].parent = Some(u)}
PayloadOf(u) == {i \in Idx(payloadWrites) : payloadWrites[i].src = u}

\* ------------------------------------------------------------------- C1
\* C1 (as claimed): every claimed task whose process_url call returned has
\* exactly one Record in a per-source JSON document and exactly one Record in
\* the combined log, also when its fetch failed after all retries.
C1_ReturnedTaskIsRecorded ==
    \A i \in Idx(ended) :
        ended[i].how = "returned" =>
            /\ Cardinality(JsonDocsOf(ended[i].src)) = 1
            /\ Cardinality(CombinedOf(ended[i].src)) = 1

\* ------------------------------------------------------------------- C2
\* C2: for every URL, at most one task claims it, at most one Record is
\* returned for it, at most one JSON document and at most one line of the
\* combined log carry it; every Record emitted belongs to a claimed URL.
C2_AtMostOneRecordPerUrl ==
    /\ \A i \in Idx(taskLog) :
          /\ taskLog[i].src \in visited
          /\ Cardinality(TasksOf(taskLog[i].src)) = 1
          /\ Cardinality(EndedOf(taskLog[i].src)) <= 1
          /\ Cardinality(JsonDocsOf(taskLog[i].src)) <= 1
          /\ Cardinality(CombinedOf(taskLog[i].src)) <= 1
    /\ \A i \in Idx(ended) : ended[i].rec.source_url = ended[i].src /\ TasksOf(ended[i].src) # {}
    /\ \A i \in Idx(jsonWrites) : TasksOf(jsonWrites[i].rec.source_url) # {}
    /\ \A i \in Idx(combined) :
          combined[i].kind = "json" => TasksOf(combined[i].rec.source_url) # {}
    /\ Len(all_results) <= Len(ended)

\* A page that links to its own URL has been crawled past that link: the call
\* on the visited URL returned nothing, and the page's task went on.
C2_Witness ==
    \E f \in Frames :
        /\ f.pc = "loop"
        /\ \E j \in 1..(f.k - 1) : f.links[j] = f.url
        /\ Cardinality(TasksOf(f.url)) = 1

\* ------------------------------------------------------------------- C3
\* C3 (as claimed): no two safe_get calls of a run are for the same requested
\* URL (the URL after the blob-to-raw rewrite), and the task's URL is in the
\* visited set when its fetch is issued.
C3_NoUrlFetchedTwice ==
    /\ \A i, j \in Idx(getLog) : i # j => getLog[i].req # getLog[j].req
    /\ \A i \in Idx(getLog) : getLog[i].claimed

\* ------------------------------------------------------------------- C4
Pristine(rec) ==
    /\ rec.full_text = None
    /\ rec.article_text = None
    /\ rec.local_path = None
    /\ rec.discovered_links = <<>>
    /\ rec.downloaded = FALSE

\* C4: a task whose safe_get returned None ends by returning one Record with
\* error "failed_to_fetch", empty content fields and downloaded false; it wrote
\* no payload or text file and recursed into no link; no other task carries
\* that error.
C4_FailedFetchRecord ==
    /\ \A i \in Idx(ended) :
          IF ended[i].resp = None
          THEN /\ ended[i].how = "returned"
               /\ ended[i].rec.error = Some("failed_to_fetch")
               /\ Pristine(ended[i].rec)
               /\ Cardinality(EndedOf(ended[i].src)) = 1
               /\ PayloadOf(ended[i].src) = {}
               /\ ChildrenOf(ended[i].src) = {}
          ELSE ended[i].rec.error # Some("failed_to_fetch")
    /\ \A f \in Frames :
          (f.pc = "got" /\ f.resp = None) =>
              /\ Pristine(f.result)
              /\ f.result.error = None
              /\ PayloadOf(f.url) = {}
              /\ ChildrenOf(f.url) = {}

\* A child task failed all its retries and returned its Record to its parent.
C4_Witness ==
    \E i \in Idx(ended) :
        /\ ended[i].resp = None
        /\ ended[i].depth > 0
        /\ ended[i].rec.error = Some("failed_to_fetch")

\* ------------------------------------------------------------------- C5
InSafeGet(f) == f.pc \in {"get", "got"}
Increasing(slept) == \A a, b \in Idx(slept) : a < b => slept[a] < slept[b]
Failures(att) == {a \in Idx(att) : att[a] = "fail"}

\* What the claim and its amendment share: at most REQUEST_RETRIES attempts,
\* a success only as the last attempt, None exactly when REQUEST_RETRIES
\* attempts failed, one backoff per failed attempt, strictly increasing.
SafeGetLaw(f) ==
    /\ Len(f.att) <= REQUEST_RETRIES
    /\ \A a \in 1..(Len(f.att) - 1) : f.att[a] = "fail"
    /\ Len(f.slept) = Cardinality(Failures(f.att))
    /\ Increasing(f.slept)
    /\ f.pc = "get" => Failures(f.att) = Idx(f.att)
    /\ f.pc = "got" =>
          IF f.resp = None
          THEN Len(f.att) = REQUEST_RETRIES /\ Failures(f.att) = Idx(f.att)
          ELSE f.att[Len(f.att)] = "ok"

TaskOf(u) == taskLog[CHOOSE i \in Idx(taskLog) : taskLog[i].src = u]

\* C6: every task has depth at most the configured maximum (itself at most
\* MAX_CRAWL_DEPTH); a task entered by recursion has the depth of its parent
\* plus one, and its parent's depth is below the maximum; a task entered by
\* main is a seed and has depth 0.
C6_DepthLaw ==
    /\ maxDepth <= MAX_CRAWL_DEPTH
    /\ \A f \in Frames : f.depth <= maxDepth
    /\ \A i \in Idx(taskLog) :
          LET t == taskLog[i]
          IN /\ t.depth >= 0
             /\ t.depth <= maxDepth
             /\ IF t.parent = None
                THEN t.depth = 0 /\ \E n \in Idx(seeds) : seeds[n] = t.src
                ELSE /\ TasksOf(t.parent[1]) # {}
                     /\ TaskOf(t.parent[1]).depth < maxDepth
                     /\ t.depth = TaskOf(t.parent[1]).depth + 1

\* A task at the maximum depth has discovered links and goes on to persist its
\* Record without following them.
C6_Witness ==
    \E f \in Frames :
        /\ f.depth = maxDepth
        /\ f.pc = "persist"
        /\ f.result.discovered_links # <<>>
        /\ ChildrenOf(f.url) = {}

\* ------------------------------------------------------------------- C7
ServedTo(u) == ended[CHOOSE i \in Idx(ended) : ended[i].src = u].resp

\* The run of the scenario: maxDepth 1, the one seed /a, every fetch succeeded,
\* no local write failed, /a served links to /b and /c, /b served a link to /d.
Scenario ==
    /\ mainPc = "done"
    /\ maxDepth = 1
    /\ seeds = <<UrlA>>
    /\ \A i \in Idx(ended) :
          ended[i].resp # None /\ ended[i].how = "returned" /\ ended[i].rec.error = None
    /\ EndedOf(UrlA) # {}
    /\ ServedTo(UrlA) = Some(Html(UrlA, 200, PageAB))
    /\ EndedOf(UrlB) # {}
    /\ ServedTo(UrlB) = Some(Html(UrlB, 200, PageD))

\* C7: the scenario ends with exactly 3 persisted Records, /a at depth 0, /b
\* and /c at depth 1, and /d is neither fetched nor recorded.
C7_ScenarioThreeRecords ==
    Scenario =>
        /\ Len(jsonWrites) = 3
        /\ Len(combined) = 3
        /\ \A u \in {UrlA, UrlB, UrlC} :
              Cardinality(JsonDocsOf(u)) = 1 /\ Cardinality(CombinedOf(u)) = 1
        /\ [i \in Idx(taskLog) |-> <<taskLog[i].src, taskLog[i].depth>>]
              = <<<<UrlA, 0>>, <<UrlB, 1>>, <<UrlC, 1>>>>
        /\ UrlD \notin visited
        /\ \A i \in Idx(getLog) : getLog[i].req # UrlD
        /\ JsonDocsOf(UrlD) = {} /\ CombinedOf(UrlD) = {}
        /\ UrlD \in Range(jsonWrites[CHOOSE i \in Idx(jsonWrites) :
                                         jsonWrites[i].rec.source_url = UrlB]
                              .rec.discovered_links)

C7_Witness == Scenario

\* ------------------------------------------------------------------- C8
\* A log of newline-terminated records, one per line.
LineLog(log) ==
    /\ Len(log) % 2 = 0
    /\ \A i \in Idx(log) : log[i].kind = (IF i % 2 = 1 THEN "json" ELSE "nl")

\* C8 (as claimed): the combined log is at all times a sequence of
\* newline-terminated records, one per line.
C8_CombinedIsLineLog == LineLog(combined)

\* ------------------------------------------------------------------- C9
RootTasks == SelectSeq(taskLog, LAMBDA t : t.depth = 0)

SeedsDone == 1..(IF stack = <<>> THEN seedIdx - 1 ELSE seedIdx)

Followed(link, root_url) == within_domain(root_url, link) /\ ~IsBlacklistedBinary(link)

\* C10 (as claimed): a task that fetched its page, whose own writes did not
\* fail and that returned, has no error, and, where links are followed, every
\* link of its capped list that passes the filters was processed.
C10_ChildFailureDoesNotReachParent ==
    \A i \in Idx(ended) :
        LET e == ended[i]
        IN (e.how = "returned" /\ e.resp # None /\ e.src \notin FaultyTasks) =>
              /\ e.rec.error = None
              /\ ShouldFollow(e.depth, maxDepth) =>
                    \A j \in Idx(e.rec.discovered_links) :
                        Followed(e.rec.discovered_links[j], e.rec.root_url) =>
                            e.rec.discovered_links[j] \in visited

\* ------------------------------------------------------------------ C11
\* C11 (as claimed): a task whose PDF text extraction failed (and whose local
\* writes did not fail) returns, its Record is persisted once, with empty full
\* text, with status_code and content_type filled, and with the error field
\* populated.
C11_ExtractionFailureIsRecorded ==
    \A i \in Idx(ended) :
        LET e == ended[i]
        IN (e.extraction = "failed" /\ e.src \notin FaultyTasks) =>
              /\ e.how = "returned"
              /\ Cardinality(JsonDocsOf(e.src)) = 1
              /\ e.rec.full_text = Some("")
              /\ e.rec.status_code # None
              /\ e.rec.content_type # None
              /\ e.rec.error # None

\* ------------------------------------------------------------------ C13
\* C13 (as claimed): no per-source JSON document is written twice by tasks with
\* different source URLs: two writes to one path carry the same source URL.
C13_JsonDocumentNeverOverwritten ==
    \A i, j \in Idx(jsonWrites) :
        (i # j /\ jsonWrites[i].path = jsonWrites[j].path) =>
            jsonWrites[i].rec.source_url = jsonWrites[j].rec.source_url

\* ------------------------------------------------------------------ C14
HasPdfHeader(resp) == resp # None /\ Contains(Lower(resp[1].ct), <<"pdf">>)
PdfSuffix(text) == EndsWith(Lower(text), <<".", "pdf">>)
RawWritesOf(u) ==
    {payloadWrites[i].path : i \in {j \in PayloadOf(u) : payloadWrites[j].kind = "raw"}}

\* C14: a task whose response carries a content type containing "pdf" takes
\* the PDF path whatever its URL ends in: no article text, no discovered link,
\* no child; and, unless a local write of the task failed, the payload is
\* saved once under a name ending in ".pdf" and the full text is what PDF
\* extraction returned.
C14_PdfHeaderWins ==
    \A i \in Idx(ended) :
        LET e == ended[i]
        IN HasPdfHeader(e.resp) =>
              /\ e.route = "pdf"
              /\ e.rec.article_text = None
              /\ e.rec.article_text_path = None
              /\ e.rec.discovered_links = <<>>
              /\ ChildrenOf(e.src) = {}
              /\ e.src \notin FaultyTasks =>
                    /\ e.rec.local_path # None
                    /\ PdfSuffix(e.rec.local_path[1].name)
                    /\ RawWritesOf(e.src) = {e.rec.local_path[1]}
                    /\ e.extraction \in {"ok", "failed"}
                    /\ e.rec.full_text = Some(extract_text_from_pdf(e.extraction = "ok"))

\* A response with a PDF content type was served for a URL that does not end
\* in ".pdf" (neither as requested nor as fetched) and took the PDF path.
C14_Witness ==
    \E i \in Idx(ended) :
        /\ HasPdfHeader(ended[i].resp)
        /\ ~PdfSuffix(ended[i].req)
        /\ ~PdfSuffix(ended[i].resp[1].url)
        /\ ended[i].route = "pdf"
        /\ ended[i].rec.downloaded

\* ------------------------------------------------------------------ C15
\* C15 (as claimed): a task whose response has no PDF content type and whose
\* final URL has a path ending in ".pdf" takes the PDF path.
C15_PdfSuffixOfFinalUrlWins ==
    \A i \in Idx(ended) :
        LET e == ended[i]
        IN (e.resp # None /\ ~HasPdfHeader(e.resp)
                /\ PdfSuffix(urlparse(e.resp[1].url).path)) =>
              e.route = "pdf"

\* ------------------------------------------------------------------ C12
\* The seeds scrape_all_brains has not come to yet.
SeedsLeft == {n \in Idx(brains) : n > brainIdx}

\* C12 (as claimed): a run gets through its seed list.  When main
\* (scrape_all_brains) has returned, every seed was attempted; and a search
\* crawl, which stands between scrape_all_brains and its next seed, is over
\* within MaxPage pages: a crawl that either gains an item or stops with every
\* page needs at most max_items of them, which is less.
C12_RunExhaustsSeedList ==
    /\ mainPc = "done" => seedIdx = Len(seeds) + 1
    /\ scrapePc = "done" => brainIdx = Len(brains) + 1
    /\ (scrapePc \in {"page", "items"} /\ SeedsLeft # {}) => search.page <= MaxPage

\* ------------------------------------------------------------------ C16
\* A response that is neither a PDF (by header or by the path of the requested
\* or of the final URL) nor HTML (by header or by the start of its body).
Opaque(r, url) ==
    /\ ~Contains(Lower(r.ct), <<"pdf">>)
    /\ ~PdfSuffix(urlparse(url).path)
    /\ ~PdfSuffix(urlparse(r.url).path)
    /\ ~Contains(Lower(r.ct), <<"text", "/", "html">>)
    /\ ~r.html_tag
JsonlOf(b) == {jsonl[b][i].rec : i \in {j \in Idx(jsonl[b]) : jsonl[b][j].kind = "json"}}
JsonlRecords == UNION {JsonlOf(b) : b \in Brains}

\* C16 (as claimed): in process_url, a task whose response is opaque has no
\* extracted HTML text, no discovered link and no child; in scrape_url_for_brain
\* the record of a plain seed answered with an opaque response is no HTML record.
C16_OpaqueBinaryIsNotParsed ==
    /\ \A i \in Idx(ended) :
          LET e == ended[i]
          IN (e.resp # None /\ Opaque(e.resp[1], e.req)) =>
                /\ e.route # "html"
                /\ e.rec.article_text = None
                /\ e.rec.discovered_links = <<>>
                /\ ChildrenOf(e.src) = {}
    /\ \A rec \in JsonlRecords :
          (rec.url = UrlPlain /\ rec.content_type_header = Some(CtBin)) =>
              rec.type # Some("html") /\ rec.text = None

\* ------------------------------------------------------------------ C17
NewLinks(p) == p.links \ p.seen

\* C17 (as claimed): the pages a search crawl asks for are numbered 1, 2, 3, ...;
\* a page is asked for only while the quota is not reached, and only if the page
\* before it was fetched and brought at least one item link not seen before.
C17_StopsOnNoNewItemOrQuota ==
    \A i \in Idx(pageLog) :
        /\ pageLog[i].page = i
        /\ pageLog[i].scraped < pageLog[i].max_items
        /\ i > 1 => (pageLog[i - 1].ok /\ NewLinks(pageLog[i - 1]) # {})

\* ------------------------------------------------------------------ C18
SearchOver == scrapePc \in {"loop", "done"} /\ search.page > 0
\* The items a result page of the endpoint lists, read off the endpoint itself.
ListedAt(n) ==
    {UrlItem(id) : id \in {d \in {"x", "y", "z"} :
                              \E i \in Idx(PageAt(endpoint, n)) :
                                  PageAt(endpoint, n)[i] = HrefItem(d)}}
UnionOfPages == ListedAt(1) \cup ListedAt(2)
Items == {itemLog[i].item : i \in Idx(itemLog)}
PagesAsked == [i \in Idx(pageLog) |-> pageLog[i].page]

\* The search crawl of the scenario is over: the endpoint has item links on
\* pages 1 and 2 and none on page 3, and no page fetch failed.
Scenario18 ==
    /\ SearchOver
    /\ Len(endpoint.pages) = 2
    /\ ~endpoint.endless
    /\ ListedAt(1) # {}
    /\ ListedAt(2) # {}
    /\ ListedAt(3) = {}
    /\ \A i \in Idx(pageLog) : pageLog[i].ok

\* C18 (as claimed): in the scenario, with a quota not smaller than the number
\* of unique items, pages 1, 2, 3 are fetched, no page 4, and the items
\* processed are the union of the item links of pages 1 and 2.
C18_ScenarioPagesOneTwoThree ==
    (Scenario18 /\ search.max_items >= Cardinality(UnionOfPages)) =>
        /\ PagesAsked = <<1, 2, 3>>
        /\ Items = UnionOfPages

\* C18 (amended): in the scenario, with a quota greater than the number of
\* unique items, pages 1, 2, 3 are fetched, no page 4, and the items processed
\* are the union of the item links of pages 1 and 2, each once; with a quota
\* equal to that number, the same items are processed and the crawl stops when
\* the quota is reached, before page 3.
C18_ScenarioStrictQuota ==
    /\ (Scenario18 /\ search.max_items > Cardinality(UnionOfPages)) =>
          /\ PagesAsked = <<1, 2, 3>>
          /\ Items = UnionOfPages
          /\ Len(itemLog) = Cardinality(UnionOfPages)
    /\ (Scenario18 /\ search.max_items = Cardinality(UnionOfPages)) =>
          /\ PagesAsked \in {<<1>>, <<1, 2>>}
          /\ Items = UnionOfPages
          /\ Len(itemLog) = Cardinality(UnionOfPages)

\* The scenario ended with a quota above the number of unique items, an item
\* link of page 1 being also on page 2.
C18_Witness ==
    /\ Scenario18
    /\ search.max_items > Cardinality(UnionOfPages)
    /\ ListedAt(1) \cap ListedAt(2) # {}
    /\ Len(pageLog) = 3

\* ------------------------------------------------------------------ C19
\* C19: within one search crawl scrape_archive_item is called at most once
\* for an item URL, and an item page is fetched at most once.
C19_ItemsScrapedOnce ==
    /\ \A i, j \in Idx(itemLog) : i # j => itemLog[i].item # itemLog[j].item
    /\ \A i, j \in Idx(netLog) :
          (i # j /\ netLog[i].ev = "fetch" /\ netLog[i].kind = "item"
                 /\ netLog[j].ev = "fetch" /\ netLog[j].kind = "item") =>
              netLog[i].url # netLog[j].url

\* An item link of an earlier page is on the page the crawl is at, the quota
\* is not reached, and the for loop has passed it without scraping it again.
C19_Witness ==
    /\ scrapePc = "items"
    /\ Len(pageLog) >= 2
    /\ QuotaLeft(search)
    /\ \E u \in pageLog[Len(pageLog)].links :
          /\ u \in pageLog[Len(pageLog)].seen
          /\ u \notin Range(search.pending)
          /\ Cardinality({i \in Idx(itemLog) : itemLog[i].item = u}) = 1

\* ------------------------------------------------------------------ C20
\* C20: the items handed to scrape_archive_item are at most max_items, and
\* scraped_items is the size of seen_items (and the number of items handed on).
C20_ItemQuota ==
    /\ search.scraped_items <= search.max_items
    /\ search.scraped_items = Cardinality(search.seen_items)
    /\ Len(itemLog) = search.scraped_items
    /\ Len(itemLog) <= quota
    /\ \A i \in Idx(itemLog) : itemLog[i].scraped <= itemLog[i].max_items

\* The quota is reached in the middle of a page: an item link not seen before
\* is left in the for loop, which is about to break.
C20_Witness ==
    /\ scrapePc = "items"
    /\ search.pending # <<>>
    /\ Head(search.pending) \notin search.seen_items
    /\ search.scraped_items = search.max_items
    /\ Len(itemLog) = search.max_items

\* ------------------------------------------------------------------ C21
\* The records of <brain>.jsonl in the order they were appended, and the
\* places of the records about URL u.
Records(b) == SelectSeq(jsonl[b], LAMBDA t : t.kind = "json")
RecsAbout(b, u) == {i \in Idx(Records(b)) : Records(b)[i].rec.url = u}
FailedPages == {i \in Idx(pageLog) : ~pageLog[i].ok}
FetchesAfter(n) == {m \in Idx(netLog) : m > n /\ netLog[m].ev = "fetch"}

\* C21: a search page that could not be fetched is the last page of the crawl:
\* the crawl is over, no item of that page or of a later one is processed and
\* no page, item or file is fetched after it.  An item page that could not be
\* fetched leaves exactly one record, the error item_request_failed; a file that
\* could not be fetched leaves exactly one record, the error
\* file_request_failed with its parent item; and the enumeration goes on: every
\* file link of an item page has its record, and every item link of a page the
\* crawl has left was handed on, unless the quota was reached.
C21_UnreachablePageStopsItemDoesNot ==
    /\ \A i \in FailedPages :
          /\ i = Len(pageLog)
          /\ SearchOver
          /\ \A j \in Idx(itemLog) : itemLog[j].page < pageLog[i].page
          /\ \A n \in Idx(netLog) :
                netLog[n] = Fetch(pageLog[i].url, "page") =>
                    \A m \in FetchesAfter(n) : netLog[m].kind = "url"
    /\ \A j \in Idx(itemLog) :
          /\ itemLog[j].resp = None =>
                /\ Cardinality(RecsAbout(search.brain, itemLog[j].item)) = 1
                /\ \A k \in RecsAbout(search.brain, itemLog[j].item) :
                      Records(search.brain)[k].rec =
                          ErrorRec(search.brain, itemLog[j].item, "item_request_failed")
          /\ \A u \in DOMAIN itemLog[j].outcomes :
                /\ RecsAbout(search.brain, u) # {}
                /\ itemLog[j].outcomes[u] = "failed" =>
                      /\ Cardinality(RecsAbout(search.brain, u)) = 1
                      /\ \A k \in RecsAbout(search.brain, u) :
                            Records(search.brain)[k].rec =
                                WithParent(ErrorRec(search.brain, u, "file_request_failed"),
                                           itemLog[j].item)
    /\ \A i \in Idx(pageLog) :
          search.page > pageLog[i].page =>
              \/ pageLog[i].links \subseteq Items
              \/ search.scraped_items >= search.max_items

\* An item page could not be fetched, the item after it was scraped, the crawl
\* went on to the next page, and that page could not be fetched.
C21_Witness ==
    /\ FailedPages # {}
    /\ Len(pageLog) = 2
    /\ \E j, k \in Idx(itemLog) :
          /\ j < k
          /\ itemLog[j].resp = None
          /\ itemLog[k].resp # None
          /\ itemLog[j].page = itemLog[k].page

\* ------------------------------------------------------------------ C22
\* The fetches a search crawl makes: of a result page, of an item page, of a
\* file of an item.
CrawlFetch(e) == e.ev = "fetch" /\ e.kind \in {"page", "item", "file"}

\* C22 (as claimed): no two fetches of a search crawl are made back to back:
\* between a fetch and the fetch after it a time.sleep(delay) was made.
C22_DelayBetweenFetches ==
    \A n \in Idx(netLog) :
        (n > 1 /\ CrawlFetch(netLog[n])) => ~CrawlFetch(netLog[n - 1])

\* ------------------------------------------------------------------ C23
\* The date sources in their order of priority: the value a source holds (an
\* empty text when the source is not present), and whether some source before
\* the k-th is present.
SourceValue(doc, k) ==
    IF DateTags[k].tag = "meta"
    THEN IF doc.meta[DateTags[k].key] = None THEN <<>> ELSE doc.meta[DateTags[k].key][1]
    ELSE IF doc.time = None THEN <<>>
    ELSE IF doc.time[1].datetime # <<>> THEN doc.time[1].datetime
    ELSE Strip(doc.time[1].text)
SourcePresent(doc, k) == SourceValue(doc, k) # <<>>
Normalised(text) == IF Parses(text) THEN isoformat(text) ELSE text

\* C23 (as claimed): the published value of the Record comes from the first
\* source that is present, as its normalised timestamp, or as its raw string
\* when it does not parse; it is missing only when no source is present.
C23_PublishedFirstMatchWins ==
    extracted # None =>
        /\ (\A k \in Idx(DateTags) : ~SourcePresent(html, k)) => extracted[1].published = None
        /\ \A k \in Idx(DateTags) :
              (SourcePresent(html, k) /\ \A j \in 1..(k - 1) : ~SourcePresent(html, j)) =>
                  extracted[1].published = Some(Normalised(SourceValue(html, k)))

\* ------------------------------------------------------------------ C24
\* The places of the elements of given tags, the first of a set of places,
\* the first 40 block candidates, and the paragraph texts that are not empty.
TagIdx(doc, tags) == {i \in Idx(doc.elems) : doc.elems[i].tag \in tags}
FirstPlace(S) == CHOOSE i \in S : \A j \in S : i <= j
Blocks(doc) == TagIdx(doc, {"div", "section", "article", "body"})
FirstBlocks(doc) ==
    {i \in Blocks(doc) : Cardinality({j \in Blocks(doc) : j < i}) < CANDIDATE_LIMIT}
BlockLen(doc, i) == StrLen(Strip(doc.elems[i].text))
LargestBlocks(doc) ==
    {i \in FirstBlocks(doc) : \A j \in FirstBlocks(doc) : BlockLen(doc, j) <= BlockLen(doc, i)}
ParagraphTexts(doc) ==
    SelectSeq([i \in Idx(doc.elems) |-> IF doc.elems[i].tag = "p"
                                         THEN Strip(doc.elems[i].text) ELSE <<>>],
              LAMBDA t : t # <<>>)

Kept(doc) ==
    {i \in Idx(doc.hrefs) :
        /\ ~StartsWith(Strip(doc.hrefs[i]), <<"#">>)
        /\ ~StartsWith(Lower(Strip(doc.hrefs[i])), <<"javascript", ":">>)}
Target(doc, i) == urljoin(doc.url, Strip(doc.hrefs[i]))
FirstAnchorOf(doc, u) == FirstPlace({i \in Kept(doc) : Target(doc, i) = u})

\* C25: discover_links returns absolute URLs without duplicates; they are the
\* hrefs of the page that are neither fragments nor javascript: links, resolved
\* against resp.url, every one of them, in the order of their first appearance.
C25_DiscoverLinks ==
    extracted # None =>
        /\ \A i, j \in Idx(extracted[1].links) :
              i # j => extracted[1].links[i] # extracted[1].links[j]
        /\ \A i \in Idx(extracted[1].links) :
              /\ urlparse(extracted[1].links[i]).scheme # <<>>
              /\ urlparse(extracted[1].links[i]).netloc # <<>>
        /\ Range(extracted[1].links) = {Target(html, i) : i \in Kept(html)}
        /\ \A i, j \in Idx(extracted[1].links) :
              i < j => FirstAnchorOf(html, extracted[1].links[i])
                          < FirstAnchorOf(html, extracted[1].links[j])

\* A page reached by a redirect was scanned: it has a fragment or javascript:
\* anchor, two anchors that point to the same URL, and a relative anchor whose
\* URL is another one when resolved against the requested URL.
C25_Witness ==
    /\ extracted # None
    /\ html.url # html.req
    /\ Kept(html) # Idx(html.hrefs)
    /\ \E i, j \in Kept(html) :
          i # j /\ html.hrefs[i] # html.hrefs[j] /\ Target(html, i) = Target(html, j)
    /\ \E i \in Kept(html) : Target(html, i) # urljoin(html.req, Strip(html.hrefs[i]))
    /\ extracted[1].links # <<>>

\* ------------------------------------------------------------------ C26
\* The discovered_links of the Record of task u so far: of its Record when the
\* task has ended, of the result of its running call otherwise.
StoredLinks(u) ==
    IF EndedOf(u) # {} THEN ended[CHOOSE i \in EndedOf(u) : TRUE].rec.discovered_links
    ELSE IF \E f \in Frames : f.url = u
    THEN (CHOOSE f \in Frames : f.url = u).result.discovered_links
    ELSE <<>>

IsPrefix(s, t) == Len(s) <= Len(t) /\ SubSeq(t, 1, Len(s)) = s

\* C26: the discovered_links of a Record are at most MAX_LINKS_PER_PAGE and a
\* prefix of the links discovered on the page; a task has at most
\* MAX_LINKS_PER_PAGE children, each of them one of its stored links.
C26_FanOutCap ==
    /\ \A i \in Idx(ended) :
          /\ Len(ended[i].rec.discovered_links) <= MAX_LINKS_PER_PAGE
          /\ ended[i].resp # None =>
                IsPrefix(ended[i].rec.discovered_links,
                         discover_links(ended[i].resp[1].hrefs, ended[i].resp[1].url))
    /\ \A i \in Idx(taskLog) :
          taskLog[i].parent # None =>
              /\ Cardinality(ChildrenOf(taskLog[i].parent[1])) <= MAX_LINKS_PER_PAGE
              /\ taskLog[i].src \in Range(StoredLinks(taskLog[i].parent[1]))

\* A task has ended whose page held more than MAX_LINKS_PER_PAGE distinct
\* links, a page among those beyond the cap; its Record holds the first
\* MAX_LINKS_PER_PAGE of them, it has a child, and the page beyond the cap was
\* not crawled.
C26_Witness ==
    \E i \in Idx(ended) :
        /\ ended[i].resp # None
        /\ Len(discover_links(ended[i].resp[1].hrefs, ended[i].resp[1].url))
              > MAX_LINKS_PER_PAGE
        /\ Len(ended[i].rec.discovered_links) = MAX_LINKS_PER_PAGE
        /\ ChildrenOf(ended[i].src) # {}
        /\ UrlE \in Range(discover_links(ended[i].resp[1].hrefs, ended[i].resp[1].url))
        /\ TasksOf(UrlE) = {}

\* ------------------------------------------------------------------ C27
\* The task that recursed into the task logged at place i.
ParentTask(i) == taskLog[CHOOSE p \in TasksOf(taskLog[i].parent[1]) : TRUE]
EndsInBinaryExt(url) ==
    \E ext \in {"jpg", "png", "zip", "exe"} : EndsWith(Lower(url), <<".", ext>>)

\* C27: a task that was recursed into has a parent of a depth below the
\* maximum, FOLLOW_LINKS is on, its URL does not end in .jpg, .png, .zip or
\* .exe, and its host is the host of the parent's root URL when
\* FOLLOW_SAME_DOMAIN_ONLY is on; it is one level deeper than its parent, has
\* the parent's root URL, and was not claimed by any task before it (the
\* visited set is shared).
C27_LinkFollowingFilters ==
    \A i \in Idx(taskLog) :
        /\ \A j \in Idx(taskLog) : i # j => taskLog[i].src # taskLog[j].src
        /\ taskLog[i].parent # None =>
              /\ TasksOf(taskLog[i].parent[1]) # {}
              /\ tunables.FOLLOW_LINKS
              /\ ParentTask(i).depth < maxDepth
              /\ maxDepth <= MAX_CRAWL_DEPTH
              /\ taskLog[i].depth = ParentTask(i).depth + 1
              /\ taskLog[i].root = ParentTask(i).root
              /\ ~EndsInBinaryExt(taskLog[i].src)
              /\ tunables.FOLLOW_SAME_DOMAIN_ONLY =>
                    urlparse(taskLog[i].src).netloc = urlparse(ParentTask(i).root).netloc

\* A run with FOLLOW_SAME_DOMAIN_ONLY on is over: a page linked to another
\* domain and to a picture, neither was crawled, and a link of the domain of
\* the root was recursed into.
C27_Witness ==
    /\ mainPc = "done"
    /\ tunables.FOLLOW_SAME_DOMAIN_ONLY
    /\ TasksOf(UrlBlob) = {}
    /\ TasksOf(UrlImg) = {}
    /\ \E i, j \in Idx(ended) :
          /\ UrlBlob \in Range(ended[i].rec.discovered_links)
          /\ UrlImg \in Range(ended[j].rec.discovered_links)
    /\ \E i \in Idx(taskLog) : taskLog[i].parent # None

\* ------------------------------------------------------------------ C28
\* The direct file links of an item page: the hrefs that end in .pdf, .txt,
\* .doc or .docx, resolved against the item URL.
DirectFiles(item_url, hrefs) ==
    {urljoin(item_url, hrefs[i]) :
        i \in {n \in Idx(hrefs) : \E ext \in {"pdf", "txt", "doc", "docx"} :
                                      EndsWith(Lower(hrefs[n]), <<".", ext>>)}}
HtmlItems ==
    {j \in Idx(itemLog) : itemLog[j].resp # None /\ IsHtml(itemLog[j].resp[1])}
FetchesOf(u, kind) == {n \in Idx(netLog) : netLog[n] = Fetch(u, kind)}

\* C28: an HTML item page has exactly one record of its own, the text of the
\* page; each of its distinct direct file links is fetched once and has exactly
\* one record, ok or error, after the record of the item and with parent_item
\* the item URL.  Nothing else is fetched: an item page fetched was listed on
\* a search page, a file fetched is a direct file link of an item page.
C28_ItemThenItsFiles ==
    /\ \A j \in HtmlItems :
          /\ Cardinality(RecsAbout(search.brain, itemLog[j].item)) = 1
          /\ \A k \in RecsAbout(search.brain, itemLog[j].item) :
                /\ Records(search.brain)[k].rec.type = Some("html")
                /\ Records(search.brain)[k].rec.parent_item = None
                /\ \A u \in DirectFiles(itemLog[j].item, itemLog[j].resp[1].hrefs) :
                      /\ Cardinality(FetchesOf(u, "file")) = 1
                      /\ Cardinality(RecsAbout(search.brain, u)) = 1
                      /\ \A m \in RecsAbout(search.brain, u) :
                            /\ m > k
                            /\ Records(search.brain)[m].rec.status \in {"ok", "error"}
                            /\ Records(search.brain)[m].rec.parent_item
                                  = Some(itemLog[j].item)
    /\ \A n \in Idx(netLog) :
          /\ (netLog[n].ev = "fetch" /\ netLog[n].kind = "item") =>
                \E i \in Idx(pageLog) : netLog[n].url \in pageLog[i].links
          /\ (netLog[n].ev = "fetch" /\ netLog[n].kind = "file") =>
                \E j \in HtmlItems :
                    netLog[n].url \in DirectFiles(itemLog[j].item, itemLog[j].resp[1].hrefs)

\* An HTML item page with two distinct direct file links, one of them linked
\* twice, was scraped: one file was saved, the other could not be fetched; the
\* file holds a link to an item that no search page listed.
C28_Witness ==
    \E j \in HtmlItems :
        /\ Cardinality(DirectFiles(itemLog[j].item, itemLog[j].resp[1].hrefs)) = 2
        /\ Len(itemLog[j].resp[1].hrefs) > 3
        /\ \E u, v \in DOMAIN itemLog[j].outcomes :
              itemLog[j].outcomes[u] = "saved" /\ itemLog[j].outcomes[v] = "failed"
        /\ \E u \in DOMAIN itemLog[j].outcomes :
              /\ ItemLinks(FileResponse(u).hrefs) # {}
              /\ ItemLinks(FileResponse(u).hrefs) \cap Items = {}

\* ------------------------------------------------------------------ C29
\* The first root crawl of a run, when it is over: its tasks, and the links of
\* the page a task got.
FirstRootOver == mainPc # "off" /\ seeds # <<>> /\ stack = <<>> /\ seedIdx > 1
LinksOf(u) ==
    IF EndedOf(u) = {} THEN <<>>
    ELSE IF ended[CHOOSE i \in EndedOf(u) : TRUE].resp = None THEN <<>>
    ELSE discover_links(ended[CHOOSE i \in EndedOf(u) : TRUE].resp[1].hrefs,
                        ended[CHOOSE i \in EndedOf(u) : TRUE].resp[1].url)
\* The URLs at most k links away from one of S.
RECURSIVE ReachWithin(_, _)
ReachWithin(S, k) ==
    IF k = 0 THEN S
    ELSE ReachWithin(S \cup UNION {Range(LinksOf(u)) : u \in S}, k - 1)

\* Every fetch of the crawl succeeded at once, every page is an HTML page
\* fetched under the URL asked for, every Record was written, and no link was
\* removed by the cap, by the extension filter or by the domain filter.
PlainCrawl ==
    /\ tunables.FOLLOW_LINKS
    /\ ~tunables.FOLLOW_SAME_DOMAIN_ONLY
    /\ \A i \in Idx(taskLog) : EndedOf(taskLog[i].src) # {}
    /\ \A i \in Idx(ended) :
          /\ ended[i].how = "returned"
          /\ ended[i].resp # None
          /\ ended[i].rec.error = None
          /\ ended[i].route = "html"
          /\ ended[i].resp[1].ct = CtHtml
          /\ ended[i].resp[1].status_code = 200
          /\ ended[i].resp[1].url = ended[i].src
          /\ Len(LinksOf(ended[i].src)) <= MAX_LINKS_PER_PAGE
          /\ \A u \in Range(LinksOf(ended[i].src)) : ~EndsInBinaryExt(u)

\* C29 (as claimed): when the first root crawl is over and was plain, every URL
\* at most maxDepth links away from the seed has a Record.
C29_ReachableIsRecorded ==
    (FirstRootOver /\ seedIdx = 2 /\ PlainCrawl) =>
        \A u \in ReachWithin({seeds[1]}, maxDepth) :
            \E i \in Idx(ended) : ended[i].src = u /\ ended[i].rec.source_url = u

\* ------------------------------------------------------------------ C30
\* Two pages were asked for with the same locals of the loop (seen_items,
\* scraped_items) and answered with the same item links: page is the only
\* local that differs, and no test of the loop reads it.
SameTurn(p, q) ==
    /\ p.ok /\ q.ok
    /\ p.links = q.links
    /\ p.seen = q.seen
    /\ p.scraped = q.scraped

\* C30 (as claimed): scrape_archive_search terminates whatever the pages
\* answer.  The loop then never comes twice to a page fetch with the same
\* locals and the same answer: an endpoint that goes on answering so would keep
\* it running for ever.
C30_SearchTerminates ==
    \A i, j \in Idx(pageLog) : i < j => ~SameTurn(pageLog[i], pageLog[j])

\* ---------------------------------------------------------------- C31
\* The files of a list that have the given format, and the ones named *.txt.
FilesWithFormat(files, format) ==
    {files[i] : i \in {j \in 1..Len(files) : Lower(files[j].format) = format}}
FilesNamedTxt(files) ==
    {files[i] : i \in {j \in 1..Len(files) : EndsWith(Lower(files[j].name), <<".", "txt">>)}}

\* The files the preference DjvuTXT > Text > any .txt allows as the text file.
PreferredText(files) ==
    IF FilesWithFormat(files, <<"djvutxt">>) # {} THEN FilesWithFormat(files, <<"djvutxt">>)
    ELSE IF FilesWithFormat(files, <<"text">>) # {} THEN FilesWithFormat(files, <<"text">>)
    ELSE FilesNamedTxt(files)
IsPdfFormat(f) == Contains(Lower(f.format), <<"pdf">>)

\* C31: for every file list given to choose_text_and_pdf, the text file is a
\* DjvuTXT-format file if the list has one, otherwise a Text-format file if
\* it has one, otherwise a file named *.txt; and the text file is never a
\* file whose format is a PDF format.
C31_TextFileByPreference ==
    \A i \in 1..Len(archive.calls) :
        archive.calls[i].metadata =>
            LET files == archive.calls[i].files
                text_file == archive.calls[i].chosen.text_file
            IN  /\ PreferredText(files) # {} =>
                      text_file # None /\ text_file[1] \in PreferredText(files)
                /\ text_file # None => ~IsPdfFormat(text_file[1])

\* ---------------------------------------------------------------- C32
Identifiers(seq) == [i \in 1..Len(seq) |-> seq[i].identifier]
FailedFates == {"metadata_failed", "download_failed", "read_failed", "extract_failed"}

\* C32: scrape_archive_search_to_items returns one item per doc collected by
\* search_archive_docs, in the same order, and at most max_items items; a
\* failed metadata fetch, download or extraction of a doc gives an item with
\* file_type "none" and empty text (with an error field when the metadata
\* failed), and the docs after it are processed all the same.
C32_OneItemPerDocument ==
    /\ Len(archive.items) <= archive.max_items
    /\ IsPrefix(Identifiers(archive.items), Identifiers(archive.all_docs))
    /\ archive.pc = "returned" => Len(archive.items) = Len(archive.all_docs)
    /\ archive.calls # <<>> => archive.pc \in {"items", "returned"}
    /\ \A i \in 1..Len(archive.calls) :
          archive.calls[i].fate \in FailedFates =>
              /\ archive.items[i].file_type = "none"
              /\ archive.items[i].text = <<>>
              /\ archive.calls[i].fate = "metadata_failed" => archive.items[i].error # None

====
